---- MODULE Spec2Model ----
(***************************************************************************)
(* Order creation and the order life cycle of gocommerce (package orders), *)
(* with the collaborators OrderService calls: the pricing service, the     *)
(* inventory service, the order repository and the payment gateway         *)
(* (specification Spec); the arithmetic of money.Money (SpecMoney); and    *)
(* PricingService.PriceCart with the promotion repository, the shipping    *)
(* rate calculator and the tax calculator it calls (SpecPricing);          *)
(* CartService with the cart repository, the catalog and the inventory     *)
(* service it calls (SpecCart); and the migration Manager with its         *)
(* repository and executor (SpecMigrations).                               *)
(*                                                                         *)
(* OrderService is synchronous: every service call runs from its first     *)
(* statement to its return with nothing interleaved, so each call is one   *)
(* action.  The answers of the collaborators (pricing error, reservation   *)
(* failure, Save failure, payment intent) are inputs drawn with \E at the  *)
(* point where the code makes the call.                                    *)
(***************************************************************************)
EXTENDS Integers, Sequences, FiniteSets, TLC

VARIABLES
    hasInventory,   \* OrderService.inventoryService != nil
    hasGateway,     \* OrderService.paymentGateway != nil
    now,            \* the clock read by time.Now()
    nextId,         \* number of ids handed out by OrderService.idGenerator
    repo,           \* the order repository: order id -> stored copy of the order
    held,           \* the inventory collaborator's holds: <<reference id, sku>> -> units
    last,           \* the last service call: its result and the collaborator calls it made
    calc,           \* the last operation on money.Money: its operands and what it returned
    quote,          \* the last PricingService call: its request, collaborators and result
    cartRepo,       \* the cart repository: cart id -> stored copy of the cart
    cartNextId,     \* number of ids handed out by CartService.idGenerator
    cartCalls,      \* number of calls made to CartService
    cartLast,       \* the last CartService call: its request, result and collaborator calls
    db,             \* the database of the migrations: versions recorded, changes committed
    migLast         \* the last Manager call: its target, the migrations it ran, its error

vars == <<hasInventory, hasGateway, now, nextId, repo, held, last, calc, quote,
          cartRepo, cartNextId, cartCalls, cartLast, db, migLast>>

cartVars == <<cartRepo, cartNextId, cartCalls, cartLast>>
migrationVars == <<db, migLast>>

----------------------------------------------------------------------------
(* Bounds *)

MaxTime == 5        \* service calls in a run that read the clock
MaxIds == 1         \* CreateFromCart is called only while fewer ids were issued
MaxQty == 2         \* quantity of a cart line
MaxStock == 1       \* units on hand of every SKU

SKUs == {"A", "B"}
Reasons == {"changed mind"}

Nil == 0            \* a nil *time.Time, a nil *Order id, an unused reference id
NoOrder == [ID |-> Nil]
Idle == [op |-> "none"]     \* no call made yet

\* No CartService and no migration Manager was constructed.
CartServiceIdle == cartRepo = <<>> /\ cartNextId = 0 /\ cartCalls = 0 /\ cartLast = Idle
ManagerIdle == db = [applied |-> {}, schema |-> {}] /\ migLast = Idle

----------------------------------------------------------------------------
(* orders.Order and its state machine *)

Pending == "pending"
Paid == "paid"
Processing == "processing"
Shipped == "shipped"
Delivered == "delivered"
Canceled == "canceled"
Refunded == "refunded"

OrderStatus == {Pending, Paid, Processing, Shipped, Delivered, Canceled, Refunded}

\* The transitions map of CanTransitionTo; canceled and refunded have no entry.
Transitions(status) ==
    CASE status = Pending -> {Paid, Canceled}
      [] status = Paid -> {Processing, Canceled, Refunded}
      [] status = Processing -> {Shipped, Canceled}
      [] status = Shipped -> {Delivered}
      [] status = Delivered -> {Refunded}
      [] OTHER -> {}

\* CanTransitionTo with an edge shipped -> canceled added to the map.
CanTransitionTo_ShippedCancel(o, newStatus) ==
    \/ newStatus \in Transitions(o.Status)
    \/ o.Status = Shipped /\ newStatus = Canceled

\* CanTransitionTo with an entry canceled -> {pending} added to the map.
CanTransitionTo_Reopen(o, newStatus) ==
    \/ newStatus \in Transitions(o.Status)
    \/ o.Status = Canceled /\ newStatus = Pending

CanTransitionTo(o, newStatus) == newStatus \in Transitions(o.Status)

\* Order.UpdateStatus that stamps UpdatedAt before it checks the transition.
OrderUpdateStatus_TouchFirst(o, newStatus, t) ==
    IF ~CanTransitionTo(o, newStatus)
    THEN [ok |-> FALSE, order |-> [o EXCEPT !.UpdatedAt = t]]
    ELSE [ok |-> TRUE,
          order |-> [o EXCEPT !.Status = newStatus,
                              !.UpdatedAt = t,
                              !.CompletedAt = IF newStatus = Delivered THEN t ELSE @,
                              !.CanceledAt = IF newStatus = Canceled THEN t ELSE @]]

\* Order.UpdateStatus that stamps CompletedAt on shipped instead of delivered.
OrderUpdateStatus_CompletedOnShipped(o, newStatus, t) ==
    IF ~CanTransitionTo(o, newStatus)
    THEN [ok |-> FALSE, order |-> o]
    ELSE [ok |-> TRUE,
          order |-> [o EXCEPT !.Status = newStatus,
                              !.UpdatedAt = t,
                              !.CompletedAt = IF newStatus = Shipped THEN t ELSE @,
                              !.CanceledAt = IF newStatus = Canceled THEN t ELSE @]]

\* Order.UpdateStatus at clock reading t: what it returns, and the order after.
OrderUpdateStatus(o, newStatus, t) ==
    IF ~CanTransitionTo(o, newStatus)
    THEN [ok |-> FALSE, order |-> o]
    ELSE [ok |-> TRUE,
          order |-> [o EXCEPT !.Status = newStatus,
                              !.UpdatedAt = t,
                              !.CompletedAt = IF newStatus = Delivered THEN t ELSE @,
                              !.CanceledAt = IF newStatus = Canceled THEN t ELSE @]]

\* IsCancelable that also accepts shipped orders.
IsCancelable_Shipped(o) == o.Status \in {Pending, Paid, Processing, Shipped}

IsCancelable(o) == o.Status \in {Pending, Paid, Processing}

----------------------------------------------------------------------------
(* orders.Address *)

AddressFields == {"FirstName", "LastName", "AddressLine1", "City", "PostalCode", "Country"}

\* IsComplete without the PostalCode test.
IsComplete_NoPostalCode(a) ==
    /\ a.FirstName # ""
    /\ a.LastName # ""
    /\ a.AddressLine1 # ""
    /\ a.City # ""
    /\ a.Country # ""

IsComplete(a) ==
    /\ a.FirstName # ""
    /\ a.LastName # ""
    /\ a.AddressLine1 # ""
    /\ a.City # ""
    /\ a.PostalCode # ""
    /\ a.Country # ""

\* Shipping addresses tried: complete, or with one required field empty.
Addresses ==
    {a \in [AddressFields -> {"", "x"}] : Cardinality({f \in AddressFields : a[f] = ""}) <= 1}

----------------------------------------------------------------------------
(* cart.Cart as CreateFromCart reads it *)

CartItems == [SKU : SKUs, Quantity : 1..MaxQty]

\* The item lists of carts: Cart.AddItem keeps one line per product and
\* variant, so the lines of a cart have different SKUs.
RECURSIVE ItemLists(_)
ItemLists(skus) ==
    {<<>>} \cup UNION {{<<x>> \o rest : x \in {i \in CartItems : i.SKU = sku},
                                        rest \in ItemLists(skus \ {sku})} : sku \in skus}

\* A request's Cart pointer: nil, or a cart with its items.
NilCart == [IsNil |-> TRUE, Items |-> <<>>]
Carts == {[IsNil |-> FALSE, Items |-> items] : items \in ItemLists(SKUs)}

IsEmpty(cart) == Len(cart.Items) = 0

----------------------------------------------------------------------------
(* The collaborators, as OrderService sees them *)

NoErr == ""
ErrEmptyCart == "cart is empty"
ErrInvalidAddress == "invalid address"
ErrInvalidStatus == "invalid status transition"
ErrPaymentFailed == "payment failed"
ErrOrderNotFound == "order not found"
ErrNotCancelable == "order cannot be canceled"
ErrInsufficientStock == "insufficient stock"
ErrReservationFailed == "reservation failed"
ErrPricing == "pricing failed"
ErrSave == "save failed"

\* payments.IntentStatus
IntentStatus ==
    {"pending", "requires_action", "processing", "succeeded", "canceled", "failed"}
IntentStatusSucceeded == "succeeded"

\* One call made to a collaborator: the method, its arguments, whether it
\* returned without error.  A Save or CreateIntent carries the order id in ref.
Call(fn, sku, qty, ref, ok) == [fn |-> fn, sku |-> sku, qty |-> qty, ref |-> ref, ok |-> ok]

\* inventory.Service: holds are kept by reference id and SKU.
HeldQty(h, ref, sku) == IF <<ref, sku>> \in DOMAIN h THEN h[<<ref, sku>>] ELSE 0

RECURSIVE SumHeld(_, _, _)
SumHeld(h, keys, sku) ==
    IF keys = {} THEN 0
    ELSE LET k == CHOOSE x \in keys : TRUE
         IN  (IF k[2] = sku THEN h[k] ELSE 0) + SumHeld(h, keys \ {k}, sku)

\* GetAvailableStock: units on hand that no reference holds.
AvailableStock(h, sku) ==
    IF sku \in SKUs THEN MaxStock - SumHeld(h, DOMAIN h, sku) ELSE 0

SetHeld(h, ref, sku, units) ==
    LET keys == (DOMAIN h \cup {<<ref, sku>>}) \ (IF units = 0 THEN {<<ref, sku>>} ELSE {})
    IN  [k \in keys |-> IF k = <<ref, sku>> THEN units ELSE h[k]]

\* Reserve(sku, quantity, referenceID): the error it returns, and the holds after.
ReserveErr(h, sku, qty) ==
    IF qty <= AvailableStock(h, sku) THEN NoErr ELSE ErrInsufficientStock

Reserve(h, sku, qty, ref) == SetHeld(h, ref, sku, HeldQty(h, ref, sku) + qty)

\* Release(sku, quantity, referenceID): gives back up to quantity units of the
\* SKU held under the reference.
Release(h, sku, qty, ref) ==
    LET units == HeldQty(h, ref, sku)
        back == IF qty < units THEN qty ELSE units
    IN  IF back = 0 THEN h ELSE SetHeld(h, ref, sku, units - back)

\* Repository.Save and Repository.FindByID: the repository keeps its own copy.
Save(r, o) == [id \in DOMAIN r \cup {o.ID} |-> IF id = o.ID THEN o ELSE r[id]]
Found(r, id) == id \in DOMAIN r

----------------------------------------------------------------------------
(* OrderService *)

\* What a call was given.
NoReq == [cart |-> NilCart, ship |-> [f \in AddressFields |-> ""],
          orderID |-> Nil, status |-> "", reason |-> ""]

\* The running call: the collaborators' state as the call has changed it so
\* far, the calls made, the order found (pre), the *Order the call works on
\* (obj), the order it returns (ret; NoOrder for nil) and the error it returns.
Begin(op, req) ==
    [op |-> op, req |-> req, repo |-> repo, held |-> held, nextId |-> nextId,
     now |-> now, calls |-> <<>>, ref |-> Nil, pre |-> NoOrder, obj |-> NoOrder,
     ret |-> NoOrder, intent |-> "none", err |-> NoErr]

Logged(st, c) == [st EXCEPT !.calls = Append(@, c)]
Failed(st, err) == [st EXCEPT !.err = err, !.ret = NoOrder]
Succeeded(st) == [st EXCEPT !.ret = st.obj]

\* time.Now(): every reading within one service call gives the same instant,
\* later than the readings of the calls before.
Tick(st) == [st EXCEPT !.now = now + 1]

\* rollbackInventory(reservationID)
rollbackInventory(st, reservationID) ==
    IF hasInventory
    THEN [Logged(st, Call("Release", "", 0, reservationID, TRUE))
            EXCEPT !.held = Release(st.held, "", 0, reservationID)]
    ELSE st

\* The loop over req.Cart.Items that goes on to the next line when a
\* reservation fails, and so lets CreateFromCart go on to build and save.
RECURSIVE ReserveLines_ContinueOnFailure(_, _, _, _)
ReserveLines_ContinueOnFailure(st, items, i, fault) ==
    IF i > Len(items) THEN st
    ELSE LET item == items[i]
             err == IF i = fault THEN ErrReservationFailed
                    ELSE ReserveErr(st.held, item.SKU, item.Quantity)
         IN  IF err # NoErr
             THEN ReserveLines_ContinueOnFailure(
                    Logged(st, Call("Reserve", item.SKU, item.Quantity, st.ref, FALSE)),
                    items, i + 1, fault)
             ELSE ReserveLines_ContinueOnFailure(
                    [Logged(st, Call("Reserve", item.SKU, item.Quantity, st.ref, TRUE))
                       EXCEPT !.held = Reserve(st.held, item.SKU, item.Quantity, st.ref)],
                    items, i + 1, fault)

\* The loop over req.Cart.Items of CreateFromCart, from line i on; fault is the
\* line at which the inventory service fails for a reason of its own (0: none).
RECURSIVE ReserveLines(_, _, _, _)
ReserveLines(st, items, i, fault) ==
    IF i > Len(items) THEN st
    ELSE LET item == items[i]
             err == IF i = fault THEN ErrReservationFailed
                    ELSE ReserveErr(st.held, item.SKU, item.Quantity)
         IN  IF err # NoErr
             THEN Failed(
                    rollbackInventory(
                      Logged(st, Call("Reserve", item.SKU, item.Quantity, st.ref, FALSE)),
                      st.ref),
                    err)
             ELSE ReserveLines(
                    [Logged(st, Call("Reserve", item.SKU, item.Quantity, st.ref, TRUE))
                       EXCEPT !.held = Reserve(st.held, item.SKU, item.Quantity, st.ref)],
                    items, i + 1, fault)

\* "Reserve inventory": one reservation id from idGenerator, then the loop.
ReserveInventory(st, items, fault) ==
    IF hasInventory
    THEN ReserveLines([st EXCEPT !.ref = st.nextId + 1, !.nextId = st.nextId + 1],
                      items, 1, fault)
    ELSE st

\* "Create order items" and "Create order": one id per item, then the order id.
OrderItems(items, firstId) ==
    [i \in 1..Len(items) |->
        [ID |-> firstId + i - 1, SKU |-> items[i].SKU, Quantity |-> items[i].Quantity]]

BuildOrder(st, items, notes) ==
    [Tick(st) EXCEPT
        !.obj = [ID |-> st.nextId + Len(items) + 1,
                 Status |-> Pending,
                 Items |-> OrderItems(items, st.nextId + 1),
                 Notes |-> notes,
                 CreatedAt |-> now + 1,
                 UpdatedAt |-> now + 1,
                 CompletedAt |-> Nil,
                 CanceledAt |-> Nil],
        !.nextId = st.nextId + Len(items) + 1]

\* "Save order" of CreateFromCart, and the Save that ends UpdateStatus and
\* CancelOrder: the call fails with Save's error, else returns the order.
SaveOrder(st, saved) ==
    IF saved
    THEN Succeeded([Logged(st, Call("Save", "", 0, st.obj.ID, TRUE))
                      EXCEPT !.repo = Save(st.repo, st.obj)])
    ELSE Failed(Logged(st, Call("Save", "", 0, st.obj.ID, FALSE)), ErrSave)

\* Process payment that compensates the reservation when CreateIntent fails.
ProcessPayment_Compensating(st, intent, resaved) ==
    LET called == [Logged(st, Call("CreateIntent", "", 0, st.obj.ID, intent # "error"))
                     EXCEPT !.intent = intent]
    IN  IF intent = "error" THEN Failed(rollbackInventory(called, st.ref), ErrPaymentFailed)
        ELSE IF intent = IntentStatusSucceeded
        THEN LET paid == OrderUpdateStatus(st.obj, Paid, now + 1).order
                 after == Logged(called, Call("Save", "", 0, paid.ID, resaved))
             IN  Succeeded([after EXCEPT !.obj = paid,
                                         !.repo = IF resaved THEN Save(@, paid) ELSE @])
        ELSE Succeeded(called)

\* "Process payment if gateway available": intent is "error" when CreateIntent
\* returned an error, else the status of the intent it returned; resaved tells
\* whether the Save after the transition to paid went through.
ProcessPayment(st, intent, resaved) ==
    LET called == [Logged(st, Call("CreateIntent", "", 0, st.obj.ID, intent # "error"))
                     EXCEPT !.intent = intent]
    IN  IF intent = "error" THEN Failed(called, ErrPaymentFailed)
        ELSE IF intent = IntentStatusSucceeded
        THEN LET paid == OrderUpdateStatus(st.obj, Paid, now + 1).order
                 after == Logged(called, Call("Save", "", 0, paid.ID, resaved))
             IN  Succeeded([after EXCEPT !.obj = paid,
                                         !.repo = IF resaved THEN Save(@, paid) ELSE @])
        ELSE Succeeded(called)

\* The call returns: the collaborators keep what the call did to them.
Return(st) ==
    /\ repo' = st.repo
    /\ held' = st.held
    /\ nextId' = st.nextId
    /\ now' = st.now
    /\ last' = [op |-> st.op, req |-> st.req, err |-> st.err, ret |-> st.ret,
                obj |-> st.obj, ref |-> st.ref, pre |-> st.pre, intent |-> st.intent,
                calls |-> st.calls]
    /\ UNCHANGED <<hasInventory, hasGateway, calc, quote, cartVars, migrationVars>>

\* OrderService.CreateFromCart(req)
CreateFromCart ==
    /\ nextId < MaxIds
    /\ now < MaxTime
    /\ \E cart \in Carts \cup {NilCart}, ship \in Addresses :
        LET st0 == Begin("CreateFromCart", [NoReq EXCEPT !.cart = cart, !.ship = ship])
        IN  IF cart.IsNil \/ IsEmpty(cart) THEN Return(Failed(st0, ErrEmptyCart))
            ELSE IF ~IsComplete(ship) THEN Return(Failed(st0, ErrInvalidAddress))
            ELSE \E priced \in BOOLEAN :
              LET st1 == Logged(st0, Call("PriceCart", "", 0, Nil, priced))
              IN  IF ~priced THEN Return(Failed(st1, ErrPricing))
                  ELSE \E fault \in 0..Len(cart.Items) :
                    LET st2 == ReserveInventory(st1, cart.Items, fault)
                    IN  IF st2.err # NoErr THEN Return(st2)
                        ELSE \E saved \in BOOLEAN :
                          LET st3 == SaveOrder(BuildOrder(st2, cart.Items, <<>>), saved)
                          IN  IF st3.err # NoErr THEN Return(st3)
                              ELSE IF ~hasGateway THEN Return(st3)
                              ELSE \E intent \in IntentStatus \cup {"error"},
                                      resaved \in BOOLEAN :
                                     Return(ProcessPayment(st3, intent, resaved))

\* FindByID at the start of UpdateStatus and CancelOrder.
FindOrder(st, orderID) ==
    LET found == Logged(st, Call("FindByID", "", 0, orderID, Found(st.repo, orderID)))
    IN  IF Found(st.repo, orderID)
        THEN [found EXCEPT !.pre = st.repo[orderID], !.obj = st.repo[orderID]]
        ELSE Failed(found, ErrOrderNotFound)

\* OrderService.UpdateStatus(orderID, status), after FindByID found the order.
ServiceUpdateStatus(st, status, saved) ==
    LET upd == OrderUpdateStatus(st.obj, status, now + 1)
        st1 == [(IF upd.ok THEN Tick(st) ELSE st) EXCEPT !.obj = upd.order]
    IN  IF ~upd.ok THEN Failed(st1, ErrInvalidStatus)
        ELSE SaveOrder(st1, saved)

UpdateStatus ==
    \E orderID \in DOMAIN repo \cup {Nil}, status \in OrderStatus :
      LET st0 == FindOrder(
                   Begin("UpdateStatus", [NoReq EXCEPT !.orderID = orderID, !.status = status]),
                   orderID)
      IN  IF st0.err # NoErr THEN Return(st0)
          ELSE \E saved \in BOOLEAN :
                 LET st1 == ServiceUpdateStatus(st0, status, saved)
                 IN  /\ st1.now <= MaxTime
                     /\ Return(st1)

\* The releases of CancelOrder: one per order item, under the order's id.
RECURSIVE ReleaseItems(_, _, _, _)
ReleaseItems(st, items, i, orderID) ==
    IF i > Len(items) THEN st
    ELSE ReleaseItems(
           [Logged(st, Call("Release", items[i].SKU, items[i].Quantity, orderID, TRUE))
              EXCEPT !.held = Release(st.held, items[i].SKU, items[i].Quantity, orderID)],
           items, i + 1, orderID)

\* OrderService.CancelOrder(orderID, reason), after FindByID found the order.
ServiceCancelOrder(st, reason, saved) ==
    IF ~IsCancelable(st.obj) THEN Failed(st, ErrNotCancelable)
    ELSE LET st1 == IF hasInventory
                    THEN ReleaseItems(st, st.obj.Items, 1, st.obj.ID)
                    ELSE st
             canceled == [OrderUpdateStatus(st.obj, Canceled, now + 1).order
                            EXCEPT !.Notes = Append(@, reason)]
         IN  SaveOrder([Tick(st1) EXCEPT !.obj = canceled], saved)

CancelOrder ==
    \E orderID \in DOMAIN repo \cup {Nil}, reason \in Reasons :
      LET st0 == FindOrder(
                   Begin("CancelOrder", [NoReq EXCEPT !.orderID = orderID, !.reason = reason]),
                   orderID)
      IN  IF st0.err # NoErr THEN Return(st0)
          ELSE \E saved \in BOOLEAN :
                 LET st1 == ServiceCancelOrder(st0, reason, saved)
                 IN  /\ st1.now <= MaxTime
                     /\ Return(st1)

----------------------------------------------------------------------------

Init ==
    /\ hasInventory \in BOOLEAN
    /\ hasGateway \in BOOLEAN
    /\ now = 0
    /\ nextId = 0
    /\ repo = <<>>
    /\ held = <<>>
    /\ last = [op |-> "none", req |-> NoReq, err |-> NoErr, ret |-> NoOrder,
               obj |-> NoOrder, ref |-> Nil, pre |-> NoOrder, intent |-> "none",
               calls |-> <<>>]
    /\ calc = Idle
    /\ quote = Idle
    /\ CartServiceIdle
    /\ ManagerIdle

Next ==
    \/ CreateFromCart
    \/ UpdateStatus
    \/ CancelOrder

Spec == Init /\ [][Next]_vars

----------------------------------------------------------------------------
(* Properties of OrderService *)

\* The calls of the last service call to one method, in order.
CallsOf(fn) == SelectSeq(last.calls, LAMBDA c : c.fn = fn)

\* No unit is held under the reference id.
NothingHeldUnder(ref) == \A sku \in SKUs : HeldQty(held, ref, sku) = 0

\* The last call was a CreateFromCart in which a reservation failed.
ReservationFailed ==
    /\ last.op = "CreateFromCart"
    /\ \E i \in 1..Len(last.calls) : last.calls[i].fn = "Reserve" /\ ~last.calls[i].ok

\* Every reservation the last call made is still held.
ReservationsHeld ==
    \A i \in 1..Len(last.calls) :
        LET c == last.calls[i]
        IN  (c.fn = "Reserve" /\ c.ok) => HeldQty(held, c.ref, c.sku) = c.qty

\* The order the last CreateFromCart saved (Nil when it saved none).
SavedId == IF CallsOf("Save") = <<>> THEN Nil ELSE CallsOf("Save")[1].ref

\* C1: when a reservation fails during CreateFromCart, nothing reserved under
\* that call's reference id is still held when the call returns, and the call
\* returns the inventory error.
C1_FailedReservationReleasesAll ==
    ReservationFailed =>
        /\ NothingHeldUnder(last.ref)
        /\ last.err \in {ErrInsufficientStock, ErrReservationFailed}

\* C2: when Save fails in CreateFromCart after every line was reserved, nothing
\* reserved by the call is still held when it returns, and the call returns
\* the persistence error.
C2_SaveFailureReleasesAll ==
    (last.op = "CreateFromCart" /\ hasInventory /\ CallsOf("Save") # <<>>
        /\ ~CallsOf("Save")[1].ok) =>
        /\ NothingHeldUnder(last.ref)
        /\ last.err = ErrSave

C4_PaidOrderIsPersistedPaid ==
    (last.op = "CreateFromCart" /\ last.err = NoErr) =>
        /\ last.ret.ID \in DOMAIN repo
        /\ IF last.intent = IntentStatusSucceeded
           THEN last.ret.Status = Paid /\ repo[last.ret.ID].Status = Paid
           ELSE last.ret.Status = Pending /\ repo[last.ret.ID].Status = Pending

\* C5: a CreateFromCart given a nil or empty cart fails with EmptyCart, one
\* given a shipping address with a required field empty fails with
\* InvalidAddress, and a call that fails with either error has called no
\* collaborator.
C5_ValidationBeforeAnyCall ==
    last.op = "CreateFromCart" =>
        /\ (last.req.cart.IsNil \/ last.req.cart.Items = <<>>) => last.err = ErrEmptyCart
        /\ (/\ ~last.req.cart.IsNil
            /\ last.req.cart.Items # <<>>
            /\ \E f \in AddressFields : last.req.ship[f] = "") => last.err = ErrInvalidAddress
        /\ last.err \in {ErrEmptyCart, ErrInvalidAddress} =>
              /\ last.calls = <<>>
              /\ last.ret = NoOrder

C5_Witness ==
    /\ last.op = "CreateFromCart"
    /\ last.err = ErrInvalidAddress
    /\ last.req.ship.PostalCode = ""
    /\ Len(last.req.cart.Items) = 2

\* The edges of the order state machine, as the specification lists them.
AllowedPairs ==
    {<<Pending, Paid>>, <<Pending, Canceled>>,
     <<Paid, Processing>>, <<Paid, Canceled>>, <<Paid, Refunded>>,
     <<Processing, Shipped>>, <<Processing, Canceled>>,
     <<Shipped, Delivered>>,
     <<Delivered, Refunded>>}

\* C6: Order.UpdateStatus succeeds exactly on the nine listed pairs, and
\* OrderService.UpdateStatus on a stored order fails with InvalidStatus on every
\* other pair (on a listed pair it stores the new status unless Save fails).
C6_TransitionTable ==
    /\ \A from \in OrderStatus, to \in OrderStatus :
          OrderUpdateStatus([Status |-> from, UpdatedAt |-> Nil, CompletedAt |-> Nil,
                             CanceledAt |-> Nil], to, 1).ok
            <=> <<from, to>> \in AllowedPairs
    /\ (last.op = "UpdateStatus" /\ last.pre.ID # Nil) =>
          IF <<last.pre.Status, last.req.status>> \in AllowedPairs
          THEN /\ last.err \in {NoErr, ErrSave}
               /\ last.err = NoErr =>
                    /\ last.ret.Status = last.req.status
                    /\ repo[last.pre.ID].Status = last.req.status
          ELSE last.err = ErrInvalidStatus

C6_Witness ==
    /\ last.op = "UpdateStatus"
    /\ last.pre.ID # Nil
    /\ last.pre.Status = Delivered
    /\ last.req.status = Canceled
    /\ last.err = ErrInvalidStatus

\* C7: when OrderService.UpdateStatus fails with InvalidStatus the order it
\* worked on and the stored order are as they were found (status, updatedAt,
\* completedAt, canceledAt), and FindByID is the only collaborator call made.
C7_RejectionHasNoEffect ==
    (last.op = "UpdateStatus" /\ last.err = ErrInvalidStatus) =>
        /\ last.obj = last.pre
        /\ repo[last.pre.ID] = last.pre
        /\ last.calls = <<Call("FindByID", "", 0, last.pre.ID, TRUE)>>
        /\ last.ret = NoOrder

C7_Witness ==
    /\ last.op = "UpdateStatus"
    /\ last.err = ErrInvalidStatus
    /\ last.pre.Status = Pending
    /\ last.req.status = Shipped
    /\ now > last.pre.UpdatedAt

\* C8: once the stored status of an order is canceled or refunded, no service
\* call changes it.
C8_CanceledAndRefundedAreFinal ==
    [][\A id \in DOMAIN repo :
          repo[id].Status \in {Canceled, Refunded} =>
              /\ id \in DOMAIN repo'
              /\ repo'[id].Status = repo[id].Status]_vars

C8_Witness ==
    /\ last.op \in {"UpdateStatus", "CancelOrder"}
    /\ last.pre.ID # Nil
    /\ last.pre.Status \in {Canceled, Refunded}
    /\ last.req.status \in {"", Pending, Paid}

\* What CancelOrder does to an order it found: the releases and saves it
\* issued, and the order as stored afterwards.
CancelReleases == CallsOf("Release")
CancelSaves == CallsOf("Save")
OneReleasePerItem(o) ==
    [i \in 1..Len(o.Items) |-> Call("Release", o.Items[i].SKU, o.Items[i].Quantity, o.ID, TRUE)]
StoredCanceled(o) ==
    /\ repo[o.ID].Status = Canceled
    /\ repo[o.ID].Notes = Append(o.Notes, last.req.reason)
    /\ last.ret = repo[o.ID]

\* C9 as stated: CancelOrder succeeds exactly when the stored order is pending,
\* paid or processing, then issuing one release per item under the order's id,
\* setting canceled, appending the reason and saving; in any other status it
\* fails without releasing or saving.
C9_CancelSucceedsWhenCancelable ==
    (last.op = "CancelOrder" /\ last.pre.ID # Nil) =>
        IF last.pre.Status \in {Pending, Paid, Processing}
        THEN /\ last.err = NoErr
             /\ CancelReleases = OneReleasePerItem(last.pre)
             /\ Len(CancelSaves) = 1
             /\ StoredCanceled(last.pre)
        ELSE /\ last.err # NoErr
             /\ CancelReleases = <<>>
             /\ CancelSaves = <<>>

\* C9 amended: for a stored order that is pending, paid or processing,
\* CancelOrder issues one release per item under the order's id when an
\* inventory service is configured (none otherwise), then calls Save once with
\* the order canceled and the reason appended to its notes; it succeeds exactly
\* when that Save succeeds, and a failed Save leaves the stored order as it
\* was.  In any other status it fails without releasing or saving.
C9_CancelAmended ==
    (last.op = "CancelOrder" /\ last.pre.ID # Nil) =>
        IF last.pre.Status \in {Pending, Paid, Processing}
        THEN /\ CancelReleases = IF hasInventory THEN OneReleasePerItem(last.pre) ELSE <<>>
             /\ Len(CancelSaves) = 1
             /\ CancelSaves[1].ref = last.pre.ID
             /\ last.obj.Status = Canceled
             /\ last.obj.Notes = Append(last.pre.Notes, last.req.reason)
             /\ last.err = NoErr <=> CancelSaves[1].ok
             /\ IF CancelSaves[1].ok
                THEN StoredCanceled(last.pre)
                ELSE last.err = ErrSave /\ repo[last.pre.ID] = last.pre
        ELSE /\ last.err = ErrNotCancelable
             /\ CancelReleases = <<>>
             /\ CancelSaves = <<>>
             /\ repo[last.pre.ID] = last.pre

C9_Witness ==
    /\ last.op = "CancelOrder"
    /\ last.err = NoErr
    /\ hasInventory
    /\ last.pre.Status = Processing
    /\ Len(CancelReleases) = 2

\* C10: in every stored order canceledAt is set exactly when the status is
\* canceled, and completedAt is set exactly when the order went through
\* delivered: a new order has neither, a delivered order has completedAt, no
\* status but delivered and refunded has it, and an order that becomes refunded
\* has it exactly when it was delivered before.
C10_Timestamps ==
    /\ [](\A id \in DOMAIN repo :
            /\ repo[id].CanceledAt # Nil <=> repo[id].Status = Canceled
            /\ repo[id].Status = Delivered => repo[id].CompletedAt # Nil
            /\ repo[id].CompletedAt # Nil => repo[id].Status \in {Delivered, Refunded})
    /\ [][\A id \in DOMAIN repo' :
            IF id \notin DOMAIN repo
            THEN repo'[id].CompletedAt = Nil /\ repo'[id].CanceledAt = Nil
            ELSE (repo'[id].Status = Refunded /\ repo[id].Status # Refunded) =>
                    (repo'[id].CompletedAt # Nil <=> repo[id].Status = Delivered)]_vars

C10_Witness ==
    \E id \in DOMAIN repo :
        /\ repo[id].Status = Refunded
        /\ repo[id].CompletedAt # Nil
        /\ last.op = "UpdateStatus"
        /\ last.pre.Status = Delivered


\* The calls of the last service call to one method before its k-th call.
CallsBefore(fn, k) == SelectSeq(SubSeq(last.calls, 1, k - 1), LAMBDA c : c.fn = fn)

\* One successful reservation per line of the cart, in the cart's order, under
\* the reference id of the call.
ReservedEveryLine(reserves) ==
    LET items == last.req.cart.Items
    IN  reserves = [i \in 1..Len(items) |->
                       Call("Reserve", items[i].SKU, items[i].Quantity, last.ref, TRUE)]

RefOf(o) == o.ID - Len(o.Items) - 1

\* C29: with an inventory collaborator that keeps holds by SKU, quantity and
\* reference id, after CreateFromCart succeeded and CancelOrder succeeded for
\* the order it created, none of the units reserved at creation is still held:
\* the releases of CancelOrder name the reference id, the SKUs and the
\* quantities of the reservations.
C29_CancelReleasesReservations ==
    (last.op = "CancelOrder" /\ last.err = NoErr /\ hasInventory) =>
        LET o == last.obj
        IN  /\ CallsOf("Release") =
                   [i \in 1..Len(o.Items) |->
                       Call("Release", o.Items[i].SKU, o.Items[i].Quantity, RefOf(o), TRUE)]
            /\ NothingHeldUnder(RefOf(o))

-----------------------------------------------------------------------------
(* money.Money *)
(* Amounts are int64 minor units; the amounts of this model stay far from  *)
(* the ends of int64, where Go wraps around.                               *)

MaxAmount == 3      \* amounts of the Money operands lie in -MaxAmount..MaxAmount
MaxParts == 3       \* Allocate is asked for at most MaxParts shares

ErrCurrencyMismatch == "currency mismatch"
ErrInvalidCurrency == "invalid currency code"

Currencies == {"USD", "EUR"}

Money(amount, currency) == [Amount |-> amount, Currency |-> currency]
ZeroValue == Money(0, "")       \* the Go literal Money{}

Abs(a) == IF a < 0 THEN -a ELSE a
\* Go's / and % on integers: the quotient is truncated toward zero and the
\* remainder takes the sign of the dividend.
Quot(a, b) == IF (a < 0) # (b < 0) THEN -(Abs(a) \div Abs(b)) ELSE Abs(a) \div Abs(b)
Rem(a, b) == a - b * Quot(a, b)

New(amount, currency) ==
    IF currency = ""
    THEN [val |-> ZeroValue, err |-> ErrInvalidCurrency]
    ELSE [val |-> Money(amount, currency), err |-> NoErr]

Zero(currency) == Money(0, currency)

\* Add without the currency test.
Add_Coerce(m, other) ==
    [val |-> Money(m.Amount + other.Amount, m.Currency), err |-> NoErr]

Add(m, other) ==
    IF m.Currency # other.Currency
    THEN [val |-> ZeroValue, err |-> ErrCurrencyMismatch]
    ELSE [val |-> Money(m.Amount + other.Amount, m.Currency), err |-> NoErr]

Subtract(m, other) ==
    IF m.Currency # other.Currency
    THEN [val |-> ZeroValue, err |-> ErrCurrencyMismatch]
    ELSE [val |-> Money(m.Amount - other.Amount, m.Currency), err |-> NoErr]

\* A float64 factor is the fraction num/den; int64(float64(Amount) * factor)
\* truncates the product toward zero.  The factors of this model are exact in
\* binary floating point.
Factor(num, den) == [num |-> num, den |-> den]
Multiply(m, factor) == Money(Quot(m.Amount * factor.num, factor.den), m.Currency)

MultiplyInt(m, factor) == Money(m.Amount * factor, m.Currency)

IsZero(m) == m.Amount = 0

LessThan(m, other) ==
    IF m.Currency # other.Currency
    THEN [val |-> FALSE, err |-> ErrCurrencyMismatch]
    ELSE [val |-> m.Amount < other.Amount, err |-> NoErr]

GreaterThan(m, other) ==
    IF m.Currency # other.Currency
    THEN [val |-> FALSE, err |-> ErrCurrencyMismatch]
    ELSE [val |-> m.Amount > other.Amount, err |-> NoErr]

Equals(m, other) == m.Amount = other.Amount /\ m.Currency = other.Currency

Allocate(m, n) ==
    IF n <= 0
    THEN <<>>
    ELSE LET base == Quot(m.Amount, n)
             remainder == Rem(m.Amount, n)
         IN  [i \in 1..n |->
                 Money(IF i - 1 < remainder THEN base + 1 ELSE base, m.Currency)]

(* Calls on Money values: the operands are drawn when the run starts, and *)
(* each method is applied to them.                                        *)

Amounts == -MaxAmount..MaxAmount
Moneys == [Amount : Amounts, Currency : Currencies \cup {""}]

Calc(op, res) ==
    /\ calc.op = "none"
    /\ calc' = [calc EXCEPT !.op = op, !.val = res.val, !.err = res.err]
    /\ UNCHANGED <<hasInventory, hasGateway, now, nextId, repo, held, last, quote,
                   cartVars, migrationVars>>

CallAdd == Calc("Add", Add(calc.m, calc.other))

CallSubtract == Calc("Subtract", Subtract(calc.m, calc.other))

CallLessThan == Calc("LessThan", LessThan(calc.m, calc.other))

CallGreaterThan == Calc("GreaterThan", GreaterThan(calc.m, calc.other))

CallEquals == Calc("Equals", [val |-> Equals(calc.m, calc.other), err |-> NoErr])

\* Allocate on a value that New returned without an error.
CallAllocate ==
    /\ New(calc.m.Amount, calc.m.Currency).err = NoErr
    /\ Calc("Allocate", [val |-> Allocate(calc.m, calc.n), err |-> NoErr])

InitMoney ==
    /\ hasInventory = FALSE
    /\ hasGateway = FALSE
    /\ now = 0
    /\ nextId = 0
    /\ repo = <<>>
    /\ held = <<>>
    /\ last = Idle
    /\ CartServiceIdle
    /\ ManagerIdle
    /\ calc \in [op : {"none"}, m : Moneys, other : Moneys, n : -1..MaxParts,
                 val : {Nil}, err : {NoErr}]
    /\ quote = Idle

NextMoney ==
    \/ CallAdd
    \/ CallSubtract
    \/ CallLessThan
    \/ CallGreaterThan
    \/ CallEquals
    \/ CallAllocate

SpecMoney == InitMoney /\ [][NextMoney]_vars

(* Properties of Money *)

RECURSIVE SumAmounts(_)
SumAmounts(shares) ==
    IF shares = <<>> THEN 0 ELSE Head(shares).Amount + SumAmounts(Tail(shares))

\* C19: for every Money m that New accepts, negative amounts included, and
\* every n > 0, Allocate(m, n) returns n shares in m's currency whose amounts
\* sum to m.Amount, any two of which differ by at most one minor unit, the
\* larger shares being the first (m.Amount mod n) ones.
C19_AllocateShares ==
    (calc.op = "Allocate" /\ calc.n > 0) =>
        LET k == calc.m.Amount % calc.n
            More(i) == IF i <= k THEN 1 ELSE 0
        IN  /\ Len(calc.val) = calc.n
            /\ \A i \in 1..calc.n : calc.val[i].Currency = calc.m.Currency
            /\ SumAmounts(calc.val) = calc.m.Amount
            /\ \A i, j \in 1..calc.n :
                   calc.val[i].Amount - calc.val[j].Amount = More(i) - More(j)

\* C20: Add, Subtract, LessThan and GreaterThan fail with CurrencyMismatch
\* exactly when the two currencies differ, and with equal currencies return the
\* integer sum, difference or comparison in that currency; Equals never fails
\* and is false when the currencies differ.
C20_CurrencySafety ==
    LET same == calc.m.Currency = calc.other.Currency
    IN  /\ calc.op \in {"Add", "Subtract", "LessThan", "GreaterThan"} =>
               /\ calc.err = (IF same THEN NoErr ELSE ErrCurrencyMismatch)
        /\ (calc.op = "Add" /\ same) =>
               calc.val = Money(calc.m.Amount + calc.other.Amount, calc.m.Currency)
        /\ (calc.op = "Subtract" /\ same) =>
               calc.val = Money(calc.m.Amount - calc.other.Amount, calc.m.Currency)
        /\ (calc.op = "LessThan" /\ same) =>
               calc.val = (calc.m.Amount < calc.other.Amount)
        /\ (calc.op = "GreaterThan" /\ same) =>
               calc.val = (calc.m.Amount > calc.other.Amount)
        /\ calc.op = "Equals" =>
               /\ calc.err = NoErr
               /\ calc.val = (same /\ calc.m.Amount = calc.other.Amount)

C20_Witness ==
    /\ calc.op = "Add"
    /\ calc.m = Money(MaxAmount, "USD")
    /\ calc.other = Money(1, "EUR")
    /\ calc.err = ErrCurrencyMismatch

-----------------------------------------------------------------------------
(* pricing.PricingService: PriceCart and the collaborators it calls *)

Products == {"P1", "P2"}
UnitPrices == {Money(5, "USD"), Money(5, "EUR")}

\* cart.CartItem as PriceCart reads it; a cart holds at most one line of a product.
PricedItems == [ID : Products, ProductID : Products, Price : UnitPrices,
                Quantity : 1..MaxQty]
PricedCarts ==
    {[IsNil |-> FALSE, Items |-> items] :
        items \in {<<>>}
            \cup {<<a>> : a \in {i \in PricedItems : i.ID = i.ProductID}}
            \cup {<<a, b>> : a \in {i \in PricedItems : i.ID = "P1" /\ i.ProductID = "P1"},
                             b \in {i \in PricedItems : i.ID = "P2" /\ i.ProductID = "P2"}}}

(* pricing.Promotion and the promotion repository *)

DiscountTypePercentage == "percentage"
DiscountTypeFixedAmount == "fixed_amount"
DiscountTypeFreeShipping == "free_shipping"

ErrPromotionNotFound == "promotion not found"

\* IsValid without the test of the validity window.
IsValid_NoExpiry(p, at) ==
    IF ~p.IsActive THEN FALSE
    ELSE IF p.UsageLimit > 0 /\ p.UsageCount >= p.UsageLimit THEN FALSE
    ELSE TRUE

IsValid(p, at) ==
    IF ~p.IsActive THEN FALSE
    ELSE IF at < p.ValidFrom \/ at > p.ValidTo THEN FALSE
    ELSE IF p.UsageLimit > 0 /\ p.UsageCount >= p.UsageLimit THEN FALSE
    ELSE TRUE

\* CanApplyToProduct with the allow-list consulted before the exclusions.
CanApplyToProduct_AllowFirst(p, productID) ==
    IF productID \in p.ApplicableProductIDs THEN TRUE
    ELSE IF productID \in p.ExcludedProductIDs THEN FALSE
    ELSE p.ApplicableProductIDs = {}

CanApplyToProduct(p, productID) ==
    IF productID \in p.ExcludedProductIDs THEN FALSE
    ELSE IF p.ApplicableProductIDs # {} THEN productID \in p.ApplicableProductIDs
    ELSE TRUE

\* A *money.Money is the empty sequence when nil and <<m>> when it points to m.
Promotion(code, type, value, maxDiscount, validTo, usageCount, applicable, excluded) ==
    [Code |-> code, DiscountType |-> type, Value |-> value,
     MaxDiscount |-> maxDiscount, ValidFrom |-> 0, ValidTo |-> validTo,
     IsActive |-> TRUE, UsageLimit |-> 1, UsageCount |-> usageCount,
     ApplicableProductIDs |-> applicable, ExcludedProductIDs |-> excluded]

\* The promotions on file when a cart is priced, at time PricingTime.
PricingTime == 1
Promotions ==
    [code \in {"HALF", "FIVE", "SHIP", "OLD", "USED", "ONLY1"} |->
        CASE code = "HALF" ->
                 Promotion(code, DiscountTypePercentage, Factor(1, 2),
                           <<Money(4, "USD")>>, PricingTime, 0, {}, {})
          [] code = "FIVE" ->
                 Promotion(code, DiscountTypeFixedAmount, Factor(3, 1),
                           <<>>, PricingTime, 0, {"P1", "P2"}, {"P2"})
          [] code = "SHIP" ->
                 Promotion(code, DiscountTypeFreeShipping, Factor(0, 1),
                           <<>>, PricingTime, 0, {}, {})
          [] code = "OLD" ->
                 Promotion(code, DiscountTypeFixedAmount, Factor(3, 1),
                           <<>>, 0, 0, {}, {})
          [] code = "USED" ->
                 Promotion(code, DiscountTypePercentage, Factor(1, 2),
                           <<>>, PricingTime, 1, {}, {})
          [] code = "ONLY1" ->
                 Promotion(code, DiscountTypePercentage, Factor(1, 2),
                           <<>>, PricingTime, 0, {"P1"}, {})]
Codes == DOMAIN Promotions \cup {"NONE"}
CodeLists == {<<>>} \cup {<<a>> : a \in Codes} \cup {<<a, b>> : a \in Codes, b \in Codes}

FindByCode(code) ==
    IF code \in DOMAIN Promotions
    THEN [promotion |-> Promotions[code], err |-> NoErr]
    ELSE [promotion |-> <<>>, err |-> ErrPromotionNotFound]

(* shipping.RateCalculator and tax.Calculator *)

ErrRate == "rate lookup failed"
ErrTax == "tax calculation failed"

NoMethod == "<nil>"
ShippingMethodIDs == {"standard"}
NoAddress == [IsNil |-> TRUE, Country |-> "", State |-> "", City |-> "",
              PostalCode |-> ""]
PricingAddresses == {[IsNil |-> FALSE, Country |-> "US", State |-> "CA",
                      City |-> "LA", PostalCode |-> "90001"]}

\* The shipping collaborator: none, one whose GetRate fails, one that answers
\* with neither a rate nor an error, and one that quotes a cost of 3 in the
\* named currency.
ShippingCalcs == {"nil", "fails", "no rate", "USD", "EUR"}
GetRate(shippingCalc, req) ==
    CASE shippingCalc = "fails" -> [rate |-> <<>>, err |-> ErrRate]
      [] shippingCalc = "no rate" -> [rate |-> <<>>, err |-> NoErr]
      [] OTHER -> [rate |-> <<[MethodID |-> req.ShippingMethodID,
                               Cost |-> Money(3, shippingCalc)]>>,
                   err |-> NoErr]

RECURSIVE AddAll(_, _)
\* total, _ = total.Add(amount) for each amount in turn
AddAll(total, amounts) ==
    IF amounts = <<>> THEN total
    ELSE AddAll(Add(total, Head(amounts)).val, Tail(amounts))

TaxRate == Factor(1, 2)

\* SimpleTaxCalculator.Calculate
SimpleCalculate(req) ==
    LET currency == IF Len(req.LineItems) > 0
                    THEN req.LineItems[1].Amount.Currency ELSE "USD"
        Taxed(i) == MultiplyInt(req.LineItems[i].Amount, req.LineItems[i].Quantity)
        taxable == SelectSeq([i \in 1..Len(req.LineItems) |->
                                 IF req.LineItems[i].IsTaxable
                                 THEN <<Taxed(i)>> ELSE <<>>],
                             LAMBDA x : x # <<>>)
        subtotal == AddAll(Zero(currency), [i \in 1..Len(taxable) |-> taxable[i][1]])
        taxableAmount == Add(subtotal, req.ShippingCost).val
        taxAmount == Multiply(taxableAmount, TaxRate)
    IN  [res |-> [TotalTax |-> taxAmount,
                  LineItemTaxes |->
                      [i \in 1..Len(req.LineItems) |->
                          [LineItemID |-> req.LineItems[i].ID,
                           TaxAmount |-> IF req.LineItems[i].IsTaxable
                                         THEN Multiply(Taxed(i), TaxRate)
                                         ELSE Zero(currency)]],
                  ShippingTax |-> Multiply(req.ShippingCost, TaxRate)],
         err |-> NoErr]

\* A calculator that taxes every line on the amount submitted for it and
\* nothing else: the total is the sum of the line taxes.
PerLineCalculate(req) ==
    LET taxes == [i \in 1..Len(req.LineItems) |->
                     [LineItemID |-> req.LineItems[i].ID,
                      TaxAmount |-> Multiply(req.LineItems[i].Amount, TaxRate)]]
        currency == IF Len(req.LineItems) > 0
                    THEN req.LineItems[1].Amount.Currency ELSE "USD"
    IN  [res |-> [TotalTax |-> AddAll(Zero(currency),
                                      [i \in 1..Len(taxes) |-> taxes[i].TaxAmount]),
                  LineItemTaxes |-> taxes,
                  ShippingTax |-> Zero(currency)],
         err |-> NoErr]

\* The tax collaborator: none, SimpleTaxCalculator, the per-line calculator,
\* and one that fails; what a failing calculator hands back next to its error
\* is the per-line answer.
TaxCalculators == {"nil", "fails", "simple", "per line"}
Calculate(taxCalculator, req) ==
    CASE taxCalculator = "simple" -> SimpleCalculate(req)
      [] taxCalculator = "per line" -> PerLineCalculate(req)
      [] OTHER -> [res |-> PerLineCalculate(req).res, err |-> ErrTax]

(* PricingService *)

PriceCartRequests ==
    [Cart : PricedCarts \cup {NilCart}, PromotionCodes : CodeLists,
     ShippingMethodID : ShippingMethodIDs \cup {NoMethod},
     ShippingAddress : PricingAddresses \cup {NoAddress}, TaxInclusive : {FALSE}]

PricingServices ==
    [taxCalculator : TaxCalculators, shippingCalc : ShippingCalcs]

LineItems(cart) ==
    [i \in 1..Len(cart.Items) |->
        [ID |-> cart.Items[i].ID, ProductID |-> cart.Items[i].ProductID,
         UnitPrice |-> cart.Items[i].Price, Quantity |-> cart.Items[i].Quantity]]

\* The per-line prices after the subtotal loop of PriceCart.
LineSubtotals(lineItems, currency) ==
    [i \in 1..Len(lineItems) |->
        LET itemSubtotal == MultiplyInt(lineItems[i].UnitPrice, lineItems[i].Quantity)
        IN  [LineItemID |-> lineItems[i].ID, Subtotal |-> itemSubtotal,
             DiscountAmount |-> Zero(currency), TaxAmount |-> Zero(currency),
             Total |-> itemSubtotal]]

RECURSIVE DiscountLines_Compounding(_, _, _, _)
\* The loop of calculateDiscount with percentages taken on what is left of the
\* line after the discounts applied before.
DiscountLines_Compounding(promotion, lineItems, i, acc) ==
    IF i > Len(lineItems) THEN acc
    ELSE IF ~CanApplyToProduct(promotion, lineItems[i].ProductID)
    THEN DiscountLines_Compounding(promotion, lineItems, i + 1, acc)
    ELSE
      LET currency == lineItems[1].UnitPrice.Currency
          price == acc.prices[i]
          computed ==
              CASE promotion.DiscountType = DiscountTypePercentage ->
                       Multiply(Subtract(price.Subtotal, price.DiscountAmount).val,
                                promotion.Value)
                [] promotion.DiscountType = DiscountTypeFixedAmount ->
                       New(Quot(promotion.Value.num, promotion.Value.den), currency).val
                [] OTHER -> ZeroValue
          itemDiscount ==
              IF /\ promotion.MaxDiscount # <<>>
                 /\ GreaterThan(computed, promotion.MaxDiscount[1]).val
              THEN promotion.MaxDiscount[1] ELSE computed
      IN  DiscountLines_Compounding(promotion, lineItems, i + 1,
              [prices |-> [acc.prices EXCEPT
                              ![i].DiscountAmount = Add(@, itemDiscount).val],
               totalDiscount |-> Add(acc.totalDiscount, itemDiscount).val,
               appliedToItems |-> Append(acc.appliedToItems, lineItems[i].ID)])

RECURSIVE DiscountLines(_, _, _, _)
\* The loop of calculateDiscount from line i on; acc holds the line prices,
\* totalDiscount and appliedToItems so far.
DiscountLines(promotion, lineItems, i, acc) ==
    IF i > Len(lineItems) THEN acc
    ELSE IF ~CanApplyToProduct(promotion, lineItems[i].ProductID)
    THEN DiscountLines(promotion, lineItems, i + 1, acc)
    ELSE
      LET currency == lineItems[1].UnitPrice.Currency
          computed ==
              CASE promotion.DiscountType = DiscountTypePercentage ->
                       Multiply(acc.prices[i].Subtotal, promotion.Value)
                [] promotion.DiscountType = DiscountTypeFixedAmount ->
                       New(Quot(promotion.Value.num, promotion.Value.den), currency).val
                [] OTHER -> ZeroValue
          itemDiscount ==
              IF /\ promotion.MaxDiscount # <<>>
                 /\ GreaterThan(computed, promotion.MaxDiscount[1]).val
              THEN promotion.MaxDiscount[1] ELSE computed
      IN  DiscountLines(promotion, lineItems, i + 1,
              [prices |-> [acc.prices EXCEPT
                              ![i].DiscountAmount = Add(@, itemDiscount).val],
               totalDiscount |-> Add(acc.totalDiscount, itemDiscount).val,
               appliedToItems |-> Append(acc.appliedToItems, lineItems[i].ID)])

\* calculateDiscount: the discount (none when <<>>) and the line prices it updated.
calculateDiscount(promotion, lineItems, lineItemPrices) ==
    IF Len(lineItems) = 0 THEN [discount |-> <<>>, prices |-> lineItemPrices]
    ELSE
      LET done == DiscountLines(promotion, lineItems, 1,
                      [prices |-> lineItemPrices,
                       totalDiscount |-> Zero(lineItems[1].UnitPrice.Currency),
                       appliedToItems |-> <<>>])
      IN  [discount |->
               IF IsZero(done.totalDiscount) THEN <<>>
               ELSE <<[Code |-> promotion.Code,
                       DiscountType |-> promotion.DiscountType,
                       Amount |-> done.totalDiscount,
                       AppliedToItems |-> done.appliedToItems]>>,
           prices |-> done.prices]

RECURSIVE applyPromotions(_, _, _, _, _)
\* applyPromotions, with the discounts applied so far; at is time.Now().
applyPromotions(lineItems, lineItemPrices, codes, at, appliedDiscounts) ==
    IF codes = <<>>
    THEN [appliedDiscounts |-> appliedDiscounts, prices |-> lineItemPrices]
    ELSE
      LET found == FindByCode(Head(codes))
      IN  IF found.err # NoErr \/ ~IsValid(found.promotion, at)
          THEN applyPromotions(lineItems, lineItemPrices, Tail(codes), at,
                               appliedDiscounts)
          ELSE LET d == calculateDiscount(found.promotion, lineItems, lineItemPrices)
               IN  applyPromotions(lineItems, d.prices, Tail(codes), at,
                                   appliedDiscounts \o d.discount)

convertToShippingAddress(addr) ==
    IF addr.IsNil
    THEN [Country |-> "", State |-> "", City |-> "", PostalCode |-> ""]
    ELSE [Country |-> addr.Country, State |-> addr.State, City |-> addr.City,
          PostalCode |-> addr.PostalCode]

convertToTaxAddress(addr) ==
    IF addr.IsNil
    THEN [Country |-> "", State |-> "", City |-> "", PostalCode |-> "", Street |-> ""]
    ELSE [Country |-> addr.Country, State |-> addr.State, City |-> addr.City,
          PostalCode |-> addr.PostalCode, Street |-> ""]

\* IsTaxable is not set by the conversion and so keeps Go's zero value, false.
convertToTaxableItems(lineItems, prices) ==
    [i \in 1..Len(lineItems) |->
        [ID |-> lineItems[i].ID, Amount |-> prices[i].Subtotal,
         Quantity |-> lineItems[i].Quantity, IsTaxable |-> FALSE]]

\* The shipping step without the test of the shipping method id.
ShippingStep_Always(s, req, currency) ==
    IF s.shippingCalc # "nil"
    THEN LET rateReq == [Items |-> <<>>,
                         DestinationAddress |->
                             convertToShippingAddress(req.ShippingAddress),
                         ShippingMethodID |-> req.ShippingMethodID]
             answer == GetRate(s.shippingCalc, rateReq)
         IN  [shippingTotal |-> IF answer.err = NoErr /\ answer.rate # <<>>
                                THEN answer.rate[1].Cost ELSE Zero(currency),
              calls |-> <<[fn |-> "GetRate", req |-> rateReq]>>]
    ELSE [shippingTotal |-> Zero(currency), calls |-> <<>>]

\* "Calculate shipping" of PriceCart: the shipping total and the call made.
ShippingStep(s, req, currency) ==
    IF req.ShippingMethodID # NoMethod /\ s.shippingCalc # "nil"
    THEN LET rateReq == [Items |-> <<>>,
                         DestinationAddress |->
                             convertToShippingAddress(req.ShippingAddress),
                         ShippingMethodID |-> req.ShippingMethodID]
             answer == GetRate(s.shippingCalc, rateReq)
         IN  [shippingTotal |-> IF answer.err = NoErr /\ answer.rate # <<>>
                                THEN answer.rate[1].Cost ELSE Zero(currency),
              calls |-> <<[fn |-> "GetRate", req |-> rateReq]>>]
    ELSE [shippingTotal |-> Zero(currency), calls |-> <<>>]

\* The tax step without the test of the calculator's error.
TaxStep_IgnoresError(s, req, lineItems, prices, shippingTotal, currency) ==
    IF ~req.ShippingAddress.IsNil /\ s.taxCalculator # "nil"
    THEN LET taxReq == [LineItems |-> convertToTaxableItems(lineItems, prices),
                        ShippingCost |-> shippingTotal,
                        Address |-> convertToTaxAddress(req.ShippingAddress),
                        TaxInclusive |-> req.TaxInclusive]
             answer == Calculate(s.taxCalculator, taxReq)
         IN  [taxTotal |-> answer.res.TotalTax,
              prices |-> [i \in 1..Len(prices) |->
                             IF i <= Len(answer.res.LineItemTaxes)
                             THEN [prices[i] EXCEPT !.TaxAmount =
                                      answer.res.LineItemTaxes[i].TaxAmount]
                             ELSE prices[i]],
              calls |-> <<[fn |-> "Calculate", req |-> taxReq]>>]
    ELSE [taxTotal |-> Zero(currency), prices |-> prices, calls |-> <<>>]

\* "Calculate tax" of PriceCart: the tax total, the line prices with their
\* tax amounts, and the call made.
TaxStep(s, req, lineItems, prices, shippingTotal, currency) ==
    IF ~req.ShippingAddress.IsNil /\ s.taxCalculator # "nil"
    THEN LET taxReq == [LineItems |-> convertToTaxableItems(lineItems, prices),
                        ShippingCost |-> shippingTotal,
                        Address |-> convertToTaxAddress(req.ShippingAddress),
                        TaxInclusive |-> req.TaxInclusive]
             answer == Calculate(s.taxCalculator, taxReq)
         IN  IF answer.err = NoErr
             THEN [taxTotal |-> answer.res.TotalTax,
                   prices |-> [i \in 1..Len(prices) |->
                                  IF i <= Len(answer.res.LineItemTaxes)
                                  THEN [prices[i] EXCEPT !.TaxAmount =
                                           answer.res.LineItemTaxes[i].TaxAmount]
                                  ELSE prices[i]],
                   calls |-> <<[fn |-> "Calculate", req |-> taxReq]>>]
             ELSE [taxTotal |-> Zero(currency), prices |-> prices,
                   calls |-> <<[fn |-> "Calculate", req |-> taxReq]>>]
    ELSE [taxTotal |-> Zero(currency), prices |-> prices, calls |-> <<>>]

NoResult == [IsNil |-> TRUE]

\* PriceCart of the service s at time at: the result, the error and the calls
\* made to the shipping and tax collaborators.
PriceCartOf(s, req, at) ==
    IF req.Cart.IsNil \/ IsEmpty(req.Cart)
    THEN [result |-> NoResult, err |-> NoErr, calls |-> <<>>]
    ELSE
      LET lineItems == LineItems(req.Cart)
          currency == req.Cart.Items[1].Price.Currency
          priced0 == LineSubtotals(lineItems, currency)
          subtotal == AddAll(Zero(currency),
                             [i \in 1..Len(priced0) |-> priced0[i].Subtotal])
          promoted == applyPromotions(lineItems, priced0, req.PromotionCodes, at, <<>>)
          discountTotal ==
              AddAll(Zero(currency),
                     [i \in 1..Len(promoted.appliedDiscounts) |->
                         promoted.appliedDiscounts[i].Amount])
          shipped == ShippingStep(s, req, currency)
          taxed == TaxStep(s, req, lineItems, promoted.prices,
                           shipped.shippingTotal, currency)
          subtotalAfterDiscount == Subtract(subtotal, discountTotal).val
          total == Add(Add(subtotalAfterDiscount, taxed.taxTotal).val,
                       shipped.shippingTotal).val
          lineItemPrices ==
              [i \in 1..Len(taxed.prices) |->
                  [taxed.prices[i] EXCEPT !.Total =
                      Add(Subtract(taxed.prices[i].Subtotal,
                                   taxed.prices[i].DiscountAmount).val,
                          taxed.prices[i].TaxAmount).val]]
      IN  [result |-> [IsNil |-> FALSE,
                       Subtotal |-> subtotal,
                       DiscountTotal |-> discountTotal,
                       TaxTotal |-> taxed.taxTotal,
                       ShippingTotal |-> shipped.shippingTotal,
                       Total |-> total,
                       LineItemPrices |-> lineItemPrices,
                       AppliedDiscounts |-> promoted.appliedDiscounts,
                       Currency |-> currency,
                       CalculatedAt |-> at],
           err |-> NoErr,
           calls |-> shipped.calls \o taxed.calls]

\* One call of PriceCart on the request and the service drawn when the run starts.
PriceCart ==
    /\ quote.op = "none"
    /\ LET out == PriceCartOf(quote.s, quote.req, now)
       IN  quote' = [quote EXCEPT !.op = "PriceCart", !.result = out.result,
                                  !.err = out.err, !.calls = out.calls]
    /\ UNCHANGED <<hasInventory, hasGateway, now, nextId, repo, held, last, calc,
                   cartVars, migrationVars>>

InitPricing ==
    /\ hasInventory = FALSE
    /\ hasGateway = FALSE
    /\ now = PricingTime
    /\ nextId = 0
    /\ repo = <<>>
    /\ held = <<>>
    /\ last = Idle
    /\ calc = Idle
    /\ CartServiceIdle
    /\ ManagerIdle
    /\ quote \in [op : {"none"}, s : PricingServices, req : PriceCartRequests,
                  result : {NoResult}, err : {NoErr}, calls : {<<>>}]

NextPricing == PriceCart

SpecPricing == InitPricing /\ [][NextPricing]_vars

(* Properties of PricingService *)

Priced == quote.op = "PriceCart" /\ ~quote.result.IsNil

\* C11: in every result PriceCart returns, whatever the promotions and the
\* answers of the tax and shipping collaborators (answers in another currency
\* included), total = subtotal - discountTotal + taxTotal + shippingTotal in
\* minor units, and the five amounts carry the result's currency.
C11_TotalIdentity ==
    Priced =>
        LET r == quote.result
        IN  /\ r.Total.Amount = r.Subtotal.Amount - r.DiscountTotal.Amount
                                    + r.TaxTotal.Amount + r.ShippingTotal.Amount
            /\ \A m \in {r.Subtotal, r.DiscountTotal, r.TaxTotal, r.ShippingTotal,
                         r.Total} : m.Currency = r.Currency

\* C12: in every PricingResult the per-line totals (line subtotal - line
\* discount + line tax) sum to subtotal - discountTotal + taxTotal, whatever
\* per-line taxes and total tax the tax calculator returned.
C12_LineTotalsSum ==
    Priced =>
        LET r == quote.result
            lines == r.LineItemPrices
            expected == r.Subtotal.Amount - r.DiscountTotal.Amount + r.TaxTotal.Amount
        IN  /\ SumAmounts([i \in 1..Len(lines) |-> lines[i].Total]) = expected
            /\ SumAmounts([i \in 1..Len(lines) |->
                              [Amount |-> lines[i].Subtotal.Amount
                                              - lines[i].DiscountAmount.Amount
                                              + lines[i].TaxAmount.Amount]]) = expected

\* A code whose promotion is on file and can be used at the time of pricing.
Usable(code) ==
    /\ code \in DOMAIN Promotions
    /\ Promotions[code].IsActive
    /\ Promotions[code].ValidFrom <= now /\ now <= Promotions[code].ValidTo
    /\ ~(Promotions[code].UsageLimit > 0
            /\ Promotions[code].UsageCount >= Promotions[code].UsageLimit)

\* The result of pricing the request of the last call with other promotion codes.
PricedWith(codes) ==
    PriceCartOf(quote.s, [quote.req EXCEPT !.PromotionCodes = codes], now).result

Reverse(seq) == [i \in 1..Len(seq) |-> seq[Len(seq) + 1 - i]]

LineDiscounts(r) == [i \in 1..Len(r.LineItemPrices) |-> r.LineItemPrices[i].DiscountAmount]

\* C13: for a list of valid promotion codes, discountTotal is the sum over the
\* codes of the discountTotal of pricing the cart with that code alone (so
\* each discount is computed on the undiscounted line subtotals), and
\* discountTotal and every line's discount are the same when the codes are
\* supplied in the opposite order.
C13_DiscountsAdditive ==
    (Priced /\ \A i \in 1..Len(quote.req.PromotionCodes) :
                   Usable(quote.req.PromotionCodes[i])) =>
        LET codes == quote.req.PromotionCodes
            r == quote.result
            alone == [i \in 1..Len(codes) |-> PricedWith(<<codes[i]>>).DiscountTotal]
            swapped == PricedWith(Reverse(codes))
        IN  /\ r.DiscountTotal.Amount = SumAmounts(alone)
            /\ swapped.DiscountTotal = r.DiscountTotal
            /\ LineDiscounts(swapped) = LineDiscounts(r)

C13_Witness ==
    /\ Priced
    /\ quote.req.PromotionCodes = <<"HALF", "FIVE">>
    /\ Len(quote.req.Cart.Items) = 2
    /\ quote.req.Cart.Items[1].Price = Money(5, "USD")
    /\ quote.req.Cart.Items[1].Quantity = 2
    /\ quote.req.Cart.Items[2].Price = Money(5, "USD")
    /\ Len(quote.result.AppliedDiscounts) = 2
    /\ quote.result.DiscountTotal = Money(9, "USD")
    /\ LineDiscounts(quote.result) = <<Money(7, "USD"), Money(2, "USD")>>

\* C14: given codes that the promotion repository does not find, or whose
\* promotions are not valid when the cart is priced, PriceCart returns no error
\* and the same discountTotal, per-line discounts and applied discounts as for
\* the same list without those codes.
C14_UnusableCodesSkipped ==
    quote.op = "PriceCart" =>
        LET kept == SelectSeq(quote.req.PromotionCodes, Usable)
            without == PricedWith(kept)
            r == quote.result
        IN  /\ quote.err = NoErr
            /\ r.IsNil = without.IsNil
            /\ ~r.IsNil =>
                   /\ r.DiscountTotal = without.DiscountTotal
                   /\ LineDiscounts(r) = LineDiscounts(without)
                   /\ r.AppliedDiscounts = without.AppliedDiscounts

C14_Witness ==
    /\ Priced
    /\ quote.req.PromotionCodes \in {<<"OLD", "HALF">>, <<"NONE", "HALF">>,
                                     <<"HALF", "USED">>}
    /\ quote.err = NoErr
    /\ Len(quote.result.AppliedDiscounts) = 1
    /\ quote.result.AppliedDiscounts[1].Code = "HALF"
    /\ quote.result.DiscountTotal.Amount > 0

\* The calls the last PriceCart made to the named collaborator method.
Asked(fn) == SelectSeq(quote.calls, LAMBDA c : c.fn = fn)

\* The cart's lines are not all in one currency, or the shipping quote that
\* was obtained is in another currency than the cart's first line.
MixedCurrencies ==
    /\ ~quote.req.Cart.IsNil
    /\ ~IsEmpty(quote.req.Cart)
    /\ LET items == quote.req.Cart.Items
       IN  \/ \E i \in 1..Len(items) : items[i].Price.Currency # items[1].Price.Currency
           \/ /\ Asked("GetRate") # <<>>
              /\ quote.s.shippingCalc \in Currencies
              /\ quote.s.shippingCalc # items[1].Price.Currency

\* C15: PriceCart on a cart whose line items, or whose shipping amount, are in
\* different currencies fails with CurrencyMismatch and returns no result.
C15_MismatchSurfaced ==
    (quote.op = "PriceCart" /\ MixedCurrencies) =>
        /\ quote.err = ErrCurrencyMismatch
        /\ quote.result.IsNil

\* C16: if the tax calculator fails, PriceCart returns no error, and in its
\* result taxTotal and every per-line tax are zero while subtotal, discountTotal
\* and shippingTotal are those of the same service without a tax calculator.
C16_TaxFailureDegrades ==
    (quote.op = "PriceCart" /\ quote.s.taxCalculator = "fails") =>
        LET r == quote.result
            bare == PriceCartOf([quote.s EXCEPT !.taxCalculator = "nil"],
                                quote.req, now).result
        IN  /\ quote.err = NoErr
            /\ r.IsNil = bare.IsNil
            /\ ~r.IsNil =>
                   /\ r.TaxTotal = Zero(r.Currency)
                   /\ \A i \in 1..Len(r.LineItemPrices) :
                          r.LineItemPrices[i].TaxAmount = Zero(r.Currency)
                   /\ r.Subtotal = bare.Subtotal
                   /\ r.DiscountTotal = bare.DiscountTotal
                   /\ r.ShippingTotal = bare.ShippingTotal

C16_Witness ==
    /\ Priced
    /\ quote.s.taxCalculator = "fails"
    /\ Len(Asked("Calculate")) = 1
    /\ quote.err = NoErr
    /\ quote.result.TaxTotal = Money(0, "USD")
    /\ quote.result.Subtotal = Money(10, "USD")
    /\ quote.result.DiscountTotal = Money(4, "USD")
    /\ quote.result.ShippingTotal = Money(3, "USD")
    /\ quote.result.Total = Money(9, "USD")

\* The shipping collaborator answered the last PriceCart with a rate.
Quoted == Asked("GetRate") # <<>> /\ quote.s.shippingCalc \in Currencies

\* C17 as stated: PriceCart requests a shipping quote only when a shipping
\* method id and a shipping address are both supplied and a shipping-rate
\* collaborator is configured; in every other case, and when the request
\* fails, shippingTotal is zero and no error is returned.
C17_QuoteNeedsMethodAndAddress ==
    quote.op = "PriceCart" =>
        LET supplied == /\ quote.req.ShippingMethodID # NoMethod
                        /\ ~quote.req.ShippingAddress.IsNil
                        /\ quote.s.shippingCalc # "nil"
        IN  /\ quote.err = NoErr
            /\ Asked("GetRate") # <<>> => supplied
            /\ (Priced /\ ~(supplied /\ Quoted)) =>
                   quote.result.ShippingTotal = Zero(quote.result.Currency)

\* C17 amended: for a cart with items, PriceCart requests a shipping quote
\* exactly when a shipping method id is supplied and a shipping-rate
\* collaborator is configured, with or without a shipping address (without
\* one the destination of the request is the empty address); shippingTotal is
\* the quoted cost when the collaborator answers with a rate, and zero in every
\* other case, a failed request included; no error is returned.
C17_QuoteNeedsMethod ==
    quote.op = "PriceCart" =>
        LET wanted == /\ ~quote.req.Cart.IsNil
                      /\ ~IsEmpty(quote.req.Cart)
                      /\ quote.req.ShippingMethodID # NoMethod
                      /\ quote.s.shippingCalc # "nil"
            asked == Asked("GetRate")
        IN  /\ quote.err = NoErr
            /\ Len(asked) = (IF wanted THEN 1 ELSE 0)
            /\ wanted =>
                   /\ asked[1].req.ShippingMethodID = quote.req.ShippingMethodID
                   /\ quote.req.ShippingAddress.IsNil =>
                          asked[1].req.DestinationAddress =
                              [Country |-> "", State |-> "", City |-> "",
                               PostalCode |-> ""]
                   /\ ~quote.req.ShippingAddress.IsNil =>
                          \A f \in {"Country", "State", "City", "PostalCode"} :
                              asked[1].req.DestinationAddress[f] =
                                  quote.req.ShippingAddress[f]
            /\ Priced =>
                   quote.result.ShippingTotal =
                       (IF Quoted THEN Money(3, quote.s.shippingCalc)
                        ELSE Zero(quote.result.Currency))

C17_Witness ==
    /\ Priced
    /\ quote.req.ShippingMethodID = "standard"
    /\ quote.req.ShippingAddress.IsNil
    /\ quote.s.shippingCalc = "USD"
    /\ Len(Asked("GetRate")) = 1
    /\ quote.result.ShippingTotal = Money(3, "USD")
    /\ quote.err = NoErr

\* C18: when an address and a tax calculator are configured, the taxable
\* amount PriceCart submits for each line is the line's subtotal minus the
\* line's discount, and the shipping cost it submits is the shippingTotal of
\* the shipping step.
C18_TaxableAmounts ==
    (Priced /\ ~quote.req.ShippingAddress.IsNil /\ quote.s.taxCalculator # "nil") =>
        LET asked == Asked("Calculate")
            lines == quote.result.LineItemPrices
        IN  /\ Len(asked) = 1
            /\ Len(asked[1].req.LineItems) = Len(lines)
            /\ \A i \in 1..Len(lines) :
                   asked[1].req.LineItems[i].Amount.Amount =
                       lines[i].Subtotal.Amount - lines[i].DiscountAmount.Amount
            /\ asked[1].req.ShippingCost = quote.result.ShippingTotal

\* The promotion on file under the code may discount the product: the product
\* is not excluded and, if the promotion lists products, is one of them.
Applies(code, productID) ==
    /\ productID \notin Promotions[code].ExcludedProductIDs
    /\ \/ Promotions[code].ApplicableProductIDs = {}
       \/ productID \in Promotions[code].ApplicableProductIDs

\* The product of the cart line with the given line item id.
ProductOf(id) ==
    LET items == quote.req.Cart.Items
    IN  items[CHOOSE i \in 1..Len(items) : items[i].ID = id].ProductID

\* C21: in a PricingResult a promotion discounts a line only if the promotion
\* is valid when the cart is priced (active, validFrom <= now <= validTo,
\* usage limit not reached) and the line's product is not excluded and, when
\* the promotion lists products, is listed; a product both listed and
\* excluded gets no discount.
C21_OnlyValidApplicablePromotions ==
    Priced =>
        LET r == quote.result
            codes == quote.req.PromotionCodes
            items == quote.req.Cart.Items
        IN  /\ \A k \in 1..Len(r.AppliedDiscounts) :
                   LET d == r.AppliedDiscounts[k]
                   IN  /\ \E j \in 1..Len(codes) : codes[j] = d.Code
                       /\ Usable(d.Code)
                       /\ \A n \in 1..Len(d.AppliedToItems) :
                              Applies(d.Code, ProductOf(d.AppliedToItems[n]))
            /\ \A i \in 1..Len(items) :
                   (\A j \in 1..Len(codes) :
                        ~(Usable(codes[j]) /\ Applies(codes[j], items[i].ProductID)))
                   => r.LineItemPrices[i].DiscountAmount = Zero(r.Currency)

C21_Witness ==
    /\ Priced
    /\ quote.req.PromotionCodes = <<"FIVE", "ONLY1">>
    /\ Len(quote.req.Cart.Items) = 2
    /\ quote.req.Cart.Items[1].Price = Money(5, "USD")
    /\ quote.req.Cart.Items[2].Price = Money(5, "USD")
    /\ Len(quote.result.AppliedDiscounts) = 2
    /\ \A k \in 1..2 : quote.result.AppliedDiscounts[k].AppliedToItems = <<"P1">>
    /\ quote.result.LineItemPrices[1].DiscountAmount.Amount > 3
    /\ quote.result.LineItemPrices[2].DiscountAmount = Money(0, "USD")

\* The lines of the priced cart that the promotion on file under the code
\* may discount.
Qualifying(code) ==
    {i \in 1..Len(quote.req.Cart.Items) :
        Applies(code, quote.req.Cart.Items[i].ProductID)}

\* C27: for every promotion with maxDiscount set, the discount the promotion
\* adds to a single line never exceeds maxDiscount: what the promotion alone
\* takes off a line is an amount in maxDiscount's currency and not above it.
C27_MaxDiscountCaps ==
    Priced =>
        \A j \in 1..Len(quote.req.PromotionCodes) :
            LET code == quote.req.PromotionCodes[j]
            IN  (Usable(code) /\ Promotions[code].MaxDiscount # <<>>) =>
                    LET cap == Promotions[code].MaxDiscount[1]
                        alone == PricedWith(<<code>>).LineItemPrices
                    IN  \A i \in Qualifying(code) :
                            alone[i].DiscountAmount.Amount # 0 =>
                                /\ alone[i].DiscountAmount.Currency = cap.Currency
                                /\ alone[i].DiscountAmount.Amount <= cap.Amount

\* C28: a valid fixed-amount promotion without maxDiscount adds its full value
\* to the discount of every qualifying line; its AppliedDiscount amount is the
\* value times the number of qualifying lines and lists exactly those lines;
\* a promotion whose total discount is zero is not among the applied discounts.
C28_FixedAmountPerLine ==
    Priced =>
        \A j \in 1..Len(quote.req.PromotionCodes) :
            LET codes == quote.req.PromotionCodes
                code == codes[j]
                p == Promotions[code]
            IN  (/\ Usable(code)
                 /\ p.DiscountType = DiscountTypeFixedAmount
                 /\ p.MaxDiscount = <<>>) =>
                    LET value == Quot(p.Value.num, p.Value.den)
                        before == PricedWith(SubSeq(codes, 1, j - 1))
                        after == PricedWith(SubSeq(codes, 1, j))
                        lines == Qualifying(code)
                        ids == SelectSeq([i \in 1..Len(quote.req.Cart.Items) |->
                                             quote.req.Cart.Items[i].ID],
                                         LAMBDA id : Applies(code, ProductOf(id)))
                        mine == SelectSeq(PricedWith(<<code>>).AppliedDiscounts,
                                          LAMBDA d : d.Code = code)
                    IN  /\ \A i \in lines :
                               after.LineItemPrices[i].DiscountAmount =
                                   Money(before.LineItemPrices[i].DiscountAmount.Amount
                                             + value,
                                         quote.result.Currency)
                        /\ IF value * Cardinality(lines) = 0
                           THEN mine = <<>>
                           ELSE /\ Len(mine) = 1
                                /\ mine[1].Amount = Money(value * Cardinality(lines),
                                                          quote.result.Currency)
                                /\ mine[1].AppliedToItems = ids

\* C30: with non-negative unit prices and promotion values, each line's
\* accumulated discount is at most the line's subtotal and discountTotal is at
\* most subtotal, so no line total and no order total is negative when tax and
\* shipping are non-negative.
C30_DiscountWithinSubtotal ==
    Priced =>
        LET r == quote.result
            lines == r.LineItemPrices
        IN  /\ \A i \in 1..Len(lines) :
                   /\ lines[i].DiscountAmount.Amount <= lines[i].Subtotal.Amount
                   /\ lines[i].TaxAmount.Amount >= 0 => lines[i].Total.Amount >= 0
            /\ r.DiscountTotal.Amount <= r.Subtotal.Amount
            /\ (r.TaxTotal.Amount >= 0 /\ r.ShippingTotal.Amount >= 0) =>
                   r.Total.Amount >= 0

----------------------------------------------------------------------------
(* cart.Cart and CartService *)
(* A cart is its ID and its Items; an item is its ID, ProductID, VariantID  *)
(* (a *string: nil or a pointer), SKU and Quantity.  Names, prices,        *)
(* attributes and time stamps are written by the calls and read by none of *)
(* the properties below; they are left out.                                *)

MaxCartCalls == 2     \* calls made to CartService in a run
MaxRequestQty == 2    \* largest quantity asked of AddItem and UpdateItemQuantity
MaxAvailable == 2     \* largest stock the inventory service reports

ErrCartNotFound == "cart not found"
ErrItemNotFound == "item not found"
ErrInvalidQuantity == "invalid quantity"
ErrOutOfStock == "product out of stock"

CartIDs == {"c1", "c2"}
NoCart == [ID |-> ""]

\* catalog.ProductRepository: P1 is active, P2 is not, P3 is not on file.
CatalogProducts ==
    [p \in {"P1", "P2"} |-> [SKU |-> IF p = "P1" THEN "A" ELSE "B", IsActive |-> p = "P1"]]

\* catalog.VariantRepository: V1 is available, V2 is not, V3 is not on file.
CatalogVariants ==
    [v \in {"V1", "V2"} |-> [SKU |-> IF v = "V1" THEN "A-1" ELSE "A-2", IsAvailable |-> v = "V1"]]

\* AddItemRequest.VariantID is a *string: nil, or a pointer to a variant id.
\* Pointers 1 and 2 are different pointers to equal strings.
NilVariant == 0
VariantOf(ptr) == CASE ptr = 1 -> "V1" [] ptr = 2 -> "V1" [] ptr = 3 -> "V2" [] OTHER -> "V3"

\* The line of the cart AddItem and Merge add to: the first with the item's
\* ProductID and VariantID (compared as pointers); 0 when there is none.
SameLine(c, item) ==
    LET same == {i \in 1..Len(c.Items) :
                    /\ c.Items[i].ProductID = item.ProductID
                    /\ c.Items[i].VariantID = item.VariantID}
    IN  IF same = {} THEN 0 ELSE CHOOSE i \in same : \A j \in same : i <= j

\* Cart.AddItem(item)
CartAddItem(c, item) ==
    IF SameLine(c, item) # 0
    THEN [c EXCEPT !.Items[SameLine(c, item)].Quantity = @ + item.Quantity]
    ELSE [c EXCEPT !.Items = Append(@, item)]

\* Cart.FindItem(itemID): the index of the item, 0 for nil.
FindItem(c, itemID) ==
    LET at == {i \in 1..Len(c.Items) : c.Items[i].ID = itemID}
    IN  IF at = {} THEN 0 ELSE CHOOSE i \in at : \A j \in at : i <= j

\* Cart.RemoveItem(itemID): what it returns, and the cart after.
CartRemoveItem(c, itemID) ==
    LET i == FindItem(c, itemID)
    IN  IF i = 0 THEN [ok |-> FALSE, cart |-> c]
        ELSE [ok |-> TRUE,
              cart |-> [c EXCEPT !.Items = SubSeq(@, 1, i - 1) \o SubSeq(@, i + 1, Len(@))]]

\* Cart.UpdateItemQuantity that stores the quantity whatever its sign.
CartUpdateItemQuantity_Stores(c, itemID, quantity) ==
    LET i == FindItem(c, itemID)
    IN  IF i = 0 THEN [ok |-> FALSE, cart |-> c]
        ELSE [ok |-> TRUE, cart |-> [c EXCEPT !.Items[i].Quantity = quantity]]

\* Cart.UpdateItemQuantity(itemID, quantity)
CartUpdateItemQuantity(c, itemID, quantity) ==
    IF quantity <= 0 THEN CartRemoveItem(c, itemID)
    ELSE LET i == FindItem(c, itemID)
         IN  IF i = 0 THEN [ok |-> FALSE, cart |-> c]
             ELSE [ok |-> TRUE, cart |-> [c EXCEPT !.Items[i].Quantity = quantity]]

\* Cart.Clear()
CartClear(c) == [c EXCEPT !.Items = <<>>]

\* Cart.Merge(other): the loop over other.Items, from item k on.
RECURSIVE MergeFrom(_, _, _)
MergeFrom(c, items, k) ==
    IF k > Len(items) THEN c
    ELSE MergeFrom(CartAddItem(c, items[k]), items, k + 1)

Merge(c, other) == MergeFrom(c, other.Items, 1)

\* Repository.Delete(id)
Delete(r, id) == [k \in DOMAIN r \ {id} |-> r[k]]

\* GetAvailableStock returned an error, or was not called.
NotAsked == -1

\* A CartService call as it starts: no collaborator called yet.
CartCall(op, cartID, itemID, quantity) ==
    [op |-> op, cartID |-> cartID, itemID |-> itemID, quantity |-> quantity,
     sku |-> "", available |-> NotAsked, err |-> NoErr, calls |-> <<>>,
     pre |-> IF cartID \in DOMAIN cartRepo THEN cartRepo[cartID] ELSE NoCart]

Called(call, fn) == [call EXCEPT !.calls = Append(@, fn)]
CartFailed(call, err) == [call EXCEPT !.err = err]

\* The call returns, leaving the repository as r and ids issued.
CartReturn(call, r, ids) ==
    /\ cartCalls < MaxCartCalls
    /\ cartCalls' = cartCalls + 1
    /\ cartRepo' = r
    /\ cartNextId' = ids
    /\ cartLast' = call
    /\ UNCHANGED <<hasInventory, hasGateway, now, nextId, repo, held, last, calc, quote,
                   migrationVars>>

\* repo.Save(cart) at the end of a call: the call fails with Save's error.
CartSave(call, cart, ids, saved) ==
    IF saved
    THEN CartReturn(Called(call, "Save"), Save(cartRepo, cart), ids)
    ELSE CartReturn(CartFailed(Called(call, "Save"), ErrSave), cartRepo, ids)

\* CartService.AddItem(cartID, req)
AddItem ==
    \E cartID \in CartIDs, productID \in {"P1", "P2", "P3"},
       variantID \in {NilVariant, 1, 2, 3, 4}, quantity \in 0..MaxRequestQty :
        LET c0 == CartCall("AddItem", cartID, Nil, quantity)
            c1 == Called(c0, "FindByID")
            c2 == Called(c1, "productRepo.FindByID")
            c3 == IF variantID # NilVariant THEN Called(c2, "variantRepo.FindByID") ELSE c2
        IN  IF quantity <= 0 THEN CartReturn(CartFailed(c0, ErrInvalidQuantity), cartRepo, cartNextId)
            ELSE IF cartID \notin DOMAIN cartRepo
            THEN CartReturn(CartFailed(c1, ErrCartNotFound), cartRepo, cartNextId)
            ELSE IF productID \notin DOMAIN CatalogProducts
            THEN CartReturn(CartFailed(c2, "product not found"), cartRepo, cartNextId)
            ELSE IF ~CatalogProducts[productID].IsActive
            THEN CartReturn(CartFailed(c2, "product not available"), cartRepo, cartNextId)
            ELSE IF variantID # NilVariant /\ VariantOf(variantID) \notin DOMAIN CatalogVariants
            THEN CartReturn(CartFailed(c3, "variant not found"), cartRepo, cartNextId)
            ELSE IF variantID # NilVariant /\ ~CatalogVariants[VariantOf(variantID)].IsAvailable
            THEN CartReturn(CartFailed(c3, "variant not available"), cartRepo, cartNextId)
            ELSE
              LET sku == IF variantID # NilVariant
                         THEN CatalogVariants[VariantOf(variantID)].SKU
                         ELSE CatalogProducts[productID].SKU
              IN  \E available \in (IF hasInventory THEN NotAsked..MaxAvailable ELSE {NotAsked}) :
                    LET c4 == IF hasInventory THEN [Called(c3, "GetAvailableStock")
                                    EXCEPT !.sku = sku, !.available = available]
                              ELSE [c3 EXCEPT !.sku = sku]
                        item == [ID |-> cartNextId + 1, ProductID |-> productID,
                                 VariantID |-> variantID, SKU |-> sku, Quantity |-> quantity]
                    IN  IF hasInventory /\ available # NotAsked /\ available < quantity
                        THEN CartReturn(CartFailed(c4, ErrOutOfStock), cartRepo, cartNextId)
                        ELSE \E saved \in BOOLEAN :
                               CartSave(c4, CartAddItem(cartRepo[cartID], item),
                                        cartNextId + 1, saved)

\* CartService.UpdateItemQuantity(cartID, itemID, quantity)
UpdateItemQuantity ==
    \E cartID \in CartIDs, itemID \in 1..(MaxCartCalls + 1), quantity \in 0..MaxRequestQty :
        LET c1 == Called(CartCall("UpdateItemQuantity", cartID, itemID, quantity), "FindByID")
        IN  IF cartID \notin DOMAIN cartRepo
            THEN CartReturn(CartFailed(c1, ErrCartNotFound), cartRepo, cartNextId)
            ELSE IF FindItem(cartRepo[cartID], itemID) = 0
            THEN CartReturn(CartFailed(c1, ErrItemNotFound), cartRepo, cartNextId)
            ELSE
              LET cart == cartRepo[cartID]
                  item == cart.Items[FindItem(cart, itemID)]
                  asks == quantity > item.Quantity /\ hasInventory
              IN  \E available \in (IF asks THEN NotAsked..MaxAvailable ELSE {NotAsked}) :
                    LET c2 == IF asks THEN [Called(c1, "GetAvailableStock")
                                    EXCEPT !.sku = item.SKU, !.available = available]
                              ELSE [c1 EXCEPT !.sku = item.SKU]
                    IN  IF asks /\ available # NotAsked /\ available < quantity
                        THEN CartReturn(CartFailed(c2, ErrOutOfStock), cartRepo, cartNextId)
                        ELSE \E saved \in BOOLEAN :
                               CartSave(c2, CartUpdateItemQuantity(cart, itemID, quantity).cart,
                                        cartNextId, saved)

\* CartService.RemoveItem(cartID, itemID)
RemoveItem ==
    \E cartID \in CartIDs, itemID \in 1..(MaxCartCalls + 1) :
        LET c1 == Called(CartCall("RemoveItem", cartID, itemID, 0), "FindByID")
        IN  IF cartID \notin DOMAIN cartRepo
            THEN CartReturn(CartFailed(c1, ErrCartNotFound), cartRepo, cartNextId)
            ELSE IF ~CartRemoveItem(cartRepo[cartID], itemID).ok
            THEN CartReturn(CartFailed(c1, ErrItemNotFound), cartRepo, cartNextId)
            ELSE \E saved \in BOOLEAN :
                   CartSave(c1, CartRemoveItem(cartRepo[cartID], itemID).cart, cartNextId, saved)

\* CartService.Clear(cartID)
Clear ==
    \E cartID \in CartIDs :
        LET c1 == Called(CartCall("Clear", cartID, Nil, 0), "FindByID")
        IN  IF cartID \notin DOMAIN cartRepo
            THEN CartReturn(CartFailed(c1, ErrCartNotFound), cartRepo, cartNextId)
            ELSE \E saved \in BOOLEAN :
                   CartSave(c1, CartClear(cartRepo[cartID]), cartNextId, saved)

\* CartService.MergeCarts(sourceCartID, targetCartID); the log holds the target
\* as cartID.  The error of the Delete that follows Save is discarded.
MergeCarts ==
    \E sourceCartID \in CartIDs, targetCartID \in CartIDs :
        LET c1 == Called(CartCall("MergeCarts", targetCartID, Nil, 0), "FindByID")
            c2 == Called(c1, "FindByID")
        IN  IF sourceCartID \notin DOMAIN cartRepo
            THEN CartReturn(CartFailed(c1, ErrCartNotFound), cartRepo, cartNextId)
            ELSE IF targetCartID \notin DOMAIN cartRepo
            THEN CartReturn(CartFailed(c2, ErrCartNotFound), cartRepo, cartNextId)
            ELSE \E saved \in BOOLEAN, deleted \in BOOLEAN :
                   LET merged == Merge(cartRepo[targetCartID], cartRepo[sourceCartID])
                       c3 == Called(c2, "Save")
                   IN  IF ~saved THEN CartReturn(CartFailed(c3, ErrSave), cartRepo, cartNextId)
                       ELSE CartReturn(Called(c3, "Delete"),
                                       IF deleted
                                       THEN Delete(Save(cartRepo, merged), sourceCartID)
                                       ELSE Save(cartRepo, merged),
                                       cartNextId)

\* Two carts are on file: c1 as GetOrCreateCart saved it, c2 with one unit of
\* P1 that an AddItem put there, under the first id of idGenerator.
InitCart ==
    /\ hasInventory \in BOOLEAN
    /\ hasGateway = FALSE
    /\ now = 0
    /\ nextId = 0
    /\ repo = <<>>
    /\ held = <<>>
    /\ last = Idle
    /\ calc = Idle
    /\ quote = Idle
    /\ cartRepo = [id \in CartIDs |->
                       [ID |-> id,
                        Items |-> IF id = "c1" THEN <<>>
                                  ELSE <<[ID |-> 1, ProductID |-> "P1", VariantID |-> NilVariant,
                                          SKU |-> "A", Quantity |-> 1]>>]]
    /\ cartNextId = 1
    /\ cartCalls = 0
    /\ cartLast = Idle
    /\ ManagerIdle

NextCart ==
    \/ AddItem
    \/ UpdateItemQuantity
    \/ RemoveItem
    \/ Clear
    \/ MergeCarts

SpecCart == InitCart /\ [][NextCart]_vars

----------------------------------------------------------------------------
(* Properties of CartService *)

\* C22: after any sequence of CartService AddItem, UpdateItemQuantity,
\* RemoveItem, Clear and MergeCarts calls every item of every saved cart has a
\* quantity above 0: AddItem with a quantity of 0 or less fails with
\* InvalidQuantity before any repository call, and UpdateItemQuantity to a
\* quantity of 0 or less removes the item.
C22_PositiveQuantities ==
    /\ \A id \in DOMAIN cartRepo :
           \A i \in 1..Len(cartRepo[id].Items) : cartRepo[id].Items[i].Quantity > 0
    /\ (cartLast.op = "AddItem" /\ cartLast.quantity <= 0) =>
           /\ cartLast.err = ErrInvalidQuantity
           /\ cartLast.calls = <<>>
    /\ (cartLast.op = "UpdateItemQuantity" /\ cartLast.quantity <= 0
            /\ cartLast.err = NoErr) =>
           /\ FindItem(cartLast.pre, cartLast.itemID) # 0
           /\ FindItem(cartRepo[cartLast.cartID], cartLast.itemID) = 0
           /\ Len(cartRepo[cartLast.cartID].Items) = Len(cartLast.pre.Items) - 1

C22_Witness ==
    /\ cartLast.op = "UpdateItemQuantity"
    /\ cartLast.quantity <= 0
    /\ cartLast.err = NoErr
    /\ Len(cartLast.pre.Items) = 2
    /\ Len(cartRepo[cartLast.cartID].Items) = 1

\* The units of a SKU in a cart, over all its lines.
RECURSIVE QuantityOfFrom(_, _, _)
QuantityOfFrom(items, sku, k) ==
    IF k > Len(items) THEN 0
    ELSE (IF items[k].SKU = sku THEN items[k].Quantity ELSE 0)
             + QuantityOfFrom(items, sku, k + 1)

QuantityOf(c, sku) == QuantityOfFrom(c.Items, sku, 1)

\* C23: with an inventory collaborator that answers the stock queries, after a
\* successful AddItem or UpdateItemQuantity the quantity the cart holds of the
\* SKU is at most the available stock reported to that call; a call that fails
\* with OutOfStock leaves the saved cart unchanged.
C23_WithinReportedStock ==
    (/\ hasInventory
     /\ cartLast.op \in {"AddItem", "UpdateItemQuantity"}
     /\ cartLast.available # NotAsked) =>
        /\ cartLast.err = NoErr =>
               QuantityOf(cartRepo[cartLast.cartID], cartLast.sku) <= cartLast.available
        /\ cartLast.err = ErrOutOfStock => cartRepo[cartLast.cartID] = cartLast.pre

----------------------------------------------------------------------------
(* migrations.Manager *)
(* Versions are strings the code compares with < and >; the model writes   *)
(* them as numbers in the same order.  The database is the set of versions *)
(* on record in the tracking table (applied) and the set of versions whose *)
(* Up changes are committed (schema).  The repository writes through the   *)
(* executor it was built with; Begin returns another executor, on which    *)
(* the migration function runs and which is committed or rolled back.      *)

MaxVersion == 3       \* the registered migrations are versions 1..MaxVersion

Registered == 1..MaxVersion

\* The migrations registered without a Down function.
NoDown == {1}


\* Where executeMigration and rollbackMigration can fail.
Outcomes == {"ok", "begin", "function", "record", "commit"}

\* A Manager call as it starts.
ManagerCall(op, target) ==
    [op |-> op, target |-> target, err |-> NoErr, ran |-> <<>>, before |-> db, db |-> db]

\* executeMigration(migration)
executeMigration(st, version, outcome) ==
    LET run == [st EXCEPT !.ran = Append(@, version)]
    IN  CASE outcome = "begin" -> [run EXCEPT !.err = "failed to begin transaction"]
          [] outcome = "function" -> [run EXCEPT !.err = "migration failed"]
          [] outcome = "record" -> [run EXCEPT !.err = "failed to record migration"]
          [] outcome = "commit" ->
                [run EXCEPT !.err = "failed to commit transaction",
                            !.db.applied = @ \cup {version}]
          [] OTHER ->
                [run EXCEPT !.db.applied = @ \cup {version},
                            !.db.schema = @ \cup {version}]

\* rollbackMigration(migration)
rollbackMigration(st, version, outcome) ==
    LET run == [st EXCEPT !.ran = Append(@, version)]
    IN  CASE outcome = "begin" -> [run EXCEPT !.err = "failed to begin transaction"]
          [] outcome = "function" -> [run EXCEPT !.err = "rollback failed"]
          [] outcome = "record" -> [run EXCEPT !.err = "failed to remove migration record"]
          [] outcome = "commit" ->
                [run EXCEPT !.err = "failed to commit transaction",
                            !.db.applied = @ \ {version}]
          [] OTHER ->
                [run EXCEPT !.db.applied = @ \ {version},
                            !.db.schema = @ \ {version}]

\* The versions of a set in ascending order.
RECURSIVE Ascending(_)
Ascending(versions) ==
    IF versions = {} THEN <<>>
    ELSE LET least == CHOOSE v \in versions : \A w \in versions : v <= w
         IN  <<least>> \o Ascending(versions \ {least})

\* The versions of a set in descending order.
RECURSIVE Descending(_)
Descending(versions) ==
    IF versions = {} THEN <<>>
    ELSE LET most == CHOOSE v \in versions : \A w \in versions : v >= w
         IN  <<most>> \o Descending(versions \ {most})

\* getPendingMigrations(appliedVersions)
getPendingMigrations(appliedVersions) == Ascending(Registered \ appliedVersions)

\* The loop of Up and UpTo over the pending migrations, from the i-th on:
\* it ends at the first error, and behind the migration whose version is the
\* target.  The failAt-th migration run fails as outcome tells.
RECURSIVE ExecutePending(_, _, _, _, _, _)
ExecutePending(st, pending, i, target, failAt, outcome) ==
    IF i > Len(pending) THEN st
    ELSE LET st1 == executeMigration(st, pending[i], IF i = failAt THEN outcome ELSE "ok")
         IN  IF st1.err # NoErr THEN st1
             ELSE IF pending[i] = target THEN st1
             ELSE ExecutePending(st1, pending, i + 1, target, failAt, outcome)

\* The loop of DownTo over the applied migrations, most recent first.
RECURSIVE RollbackApplied(_, _, _, _, _, _)
RollbackApplied(st, applied, i, target, failAt, outcome) ==
    IF i > Len(applied) THEN st
    ELSE IF applied[i] = target THEN st
    ELSE IF applied[i] \notin Registered THEN [st EXCEPT !.err = "not found in registered migrations"]
    ELSE IF applied[i] \in NoDown THEN [st EXCEPT !.err = "has no Down function"]
    ELSE LET st1 == rollbackMigration(st, applied[i], IF i = failAt THEN outcome ELSE "ok")
         IN  IF st1.err # NoErr THEN st1
             ELSE RollbackApplied(st1, applied, i + 1, target, failAt, outcome)

\* The call returns.
ManagerReturn(st) ==
    /\ db' = st.db
    /\ migLast' = [op |-> st.op, target |-> st.target, err |-> st.err, ran |-> st.ran,
                   before |-> st.before]
    /\ UNCHANGED <<hasInventory, hasGateway, now, nextId, repo, held, last, calc, quote,
                   cartVars>>

\* A version no migration has: Up runs to the end of the pending migrations.
NoTarget == -1

\* What the repository answers before the first migration runs.
RepositoryAnswers == {"ok", "InitializeSchema fails", "GetAppliedMigrations fails"}

\* Manager.Up()
Up ==
    \E answer \in RepositoryAnswers, failAt \in 0..MaxVersion, outcome \in Outcomes \ {"ok"} :
        LET st == ManagerCall("Up", NoTarget)
        IN  IF answer = "InitializeSchema fails"
            THEN ManagerReturn([st EXCEPT !.err = "failed to initialize migration schema"])
            ELSE IF answer = "GetAppliedMigrations fails"
            THEN ManagerReturn([st EXCEPT !.err = "failed to get applied migrations"])
            ELSE ManagerReturn(ExecutePending(st, getPendingMigrations(db.applied), 1,
                                              NoTarget, failAt, outcome))

\* Manager.UpTo(targetVersion)
UpTo ==
    \E targetVersion \in 0..(MaxVersion + 1), answer \in RepositoryAnswers,
       failAt \in 0..MaxVersion, outcome \in Outcomes \ {"ok"} :
        LET st == ManagerCall("UpTo", targetVersion)
        IN  IF answer = "InitializeSchema fails"
            THEN ManagerReturn([st EXCEPT !.err = "failed to initialize migration schema"])
            ELSE IF answer = "GetAppliedMigrations fails"
            THEN ManagerReturn([st EXCEPT !.err = "failed to get applied migrations"])
            ELSE ManagerReturn(ExecutePending(st, getPendingMigrations(db.applied), 1,
                                              targetVersion, failAt, outcome))

\* Manager.Down()
Down ==
    \E answer \in RepositoryAnswers \ {"InitializeSchema fails"}, outcome \in Outcomes :
        LET st == ManagerCall("Down", NoTarget)
            mostRecent == Descending(db.applied)[1]
        IN  IF answer = "GetAppliedMigrations fails"
            THEN ManagerReturn([st EXCEPT !.err = "failed to get applied migrations"])
            ELSE IF db.applied = {}
            THEN ManagerReturn([st EXCEPT !.err = "no migrations to roll back"])
            ELSE IF mostRecent \notin Registered
            THEN ManagerReturn([st EXCEPT !.err = "not found in registered migrations"])
            ELSE IF mostRecent \in NoDown
            THEN ManagerReturn([st EXCEPT !.err = "has no Down function"])
            ELSE ManagerReturn(rollbackMigration(st, mostRecent, outcome))

\* Manager.DownTo(targetVersion)
DownTo ==
    \E targetVersion \in 0..(MaxVersion + 1),
       answer \in RepositoryAnswers \ {"InitializeSchema fails"},
       failAt \in 0..MaxVersion, outcome \in Outcomes \ {"ok"} :
        LET st == ManagerCall("DownTo", targetVersion)
        IN  IF answer = "GetAppliedMigrations fails"
            THEN ManagerReturn([st EXCEPT !.err = "failed to get applied migrations"])
            ELSE ManagerReturn(RollbackApplied(st, Descending(db.applied), 1,
                                               targetVersion, failAt, outcome))

\* NewManager and Register of the migrations, on a database without tables.
InitMigrations ==
    /\ hasInventory = FALSE
    /\ hasGateway = FALSE
    /\ now = 0
    /\ nextId = 0
    /\ repo = <<>>
    /\ held = <<>>
    /\ last = Idle
    /\ calc = Idle
    /\ quote = Idle
    /\ CartServiceIdle
    /\ db = [applied |-> {}, schema |-> {}]
    /\ migLast = Idle

NextMigrations ==
    \/ Up
    \/ UpTo
    \/ Down
    \/ DownTo

SpecMigrations == InitMigrations /\ [][NextMigrations]_vars

----------------------------------------------------------------------------
(* Properties of the migration Manager *)

\* C24: after any run of Manager.Up, UpTo, Down or DownTo, also one in which a
\* migration function, the record write or the commit fails, a version is on
\* record as applied if and only if the changes of its Up function are
\* committed and not undone by a committed Down.
C24_RecordedIffCommitted == db.applied = db.schema

\* C25: Manager.UpTo(target) runs, in ascending order of version, the pending
\* migrations with a version of at most target and no migration above target,
\* also when target is already applied or is not registered; when it returns
\* without error it has run every one of them.
C25_UpToStopsAtTarget ==
    migLast.op = "UpTo" =>
        LET pendingUpTo == {v \in Registered \ migLast.before.applied : v <= migLast.target}
            ran == migLast.ran
        IN  /\ \A k \in 1..Len(ran) : ran[k] \in pendingUpTo
            /\ \A k \in 1..(Len(ran) - 1) : ran[k] < ran[k + 1]
            /\ migLast.err = NoErr => {ran[k] : k \in 1..Len(ran)} = pendingUpTo

====
